---- MODULE Spec2Model ----
(***************************************************************************)
(* A model of the pyorient binary-protocol client.                         *)
(*                                                                         *)
(*   OrientSocket  (src/pyorient/orient.py)  the transport connection:     *)
(*                 handshake, write, the read loop, close.                 *)
(*   OrientDB      (src/pyorient/orient.py)  the session facade:           *)
(*                 get_message, connect, set_session_token, close.         *)
(*   ConnectMessage (src/pyorient/messages/connection.py).                 *)
(*   CommandMessage (src/pyorient/messages/commands.py), the record        *)
(*                 messages (messages/records.py) and the cluster messages *)
(*                 (messages/cluster.py): prepare with its guards          *)
(*                 (utils.py), and fetch_response field by field.          *)
(*                                                                         *)
(* Spec follows the transport and the session; DbSpec follows the          *)
(* database-scoped operations from an established session.                 *)
(*                                                                         *)
(* The socket is the environment: what select, recv, recv_into and sendall *)
(* answer is chosen by the peer's state (alive, half-open, closed) and,    *)
(* where the operating system decides, nondeterministically.               *)
(*                                                                         *)
(* messages/base.py and constants.py are not part of the source tree; the  *)
(* pieces of BaseMessage the callers rely on (field decoding, the header,  *)
(* _update_socket_id/_update_socket_token, set_session_token) follow the   *)
(* specification's sections 4.1, 4.3 and 6.                                *)
(***************************************************************************)
EXTENDS Integers, Sequences, FiniteSets, TLC

\* ------------------------------------------------------------------ bounds
\* Largest length asked of a direct OrientSocket.read call.
MaxLen == 2
\* Most unsolicited bytes the peer may have in flight.
MaxBuf == 2
\* A server that dies while answering has sent at most this many bytes.
MaxCut == 2
\* Longest record list a synchronous command is answered with.
MaxList == 2
\* Most records an asynchronous command is answered with.
MaxStream == 3
\* Most collection changes a record response carries.
MaxChanges == 1
\* The entries of a content map handed to OrientRecord.
MaxKeys == 2
\* The cluster ids of one Cluster Count request.
MaxIds == 2
\* The characters of a record id handed to the parsers.
MaxRid == 4

\* --------------------------------------------------------------- constants
\* Highest protocol version the client understands (constants.py).
SUPPORTED_PROTOCOL == 37
\* Operation code of the Connect request (constants.py).
CONNECT_OP == 2

\* Bytes the peer may send unsolicited.
DataBytes == {65, 66}
\* Session ids and tokens the server may assign in a Connect response.
SessionIds == {7, 8}
Tokens == {<<>>, <<84>>}
\* Protocol versions the server may announce in the handshake.
ServerProtocols == {SUPPORTED_PROTOCOL, SUPPORTED_PROTOCOL + 1}
\* Buffers handed to a direct OrientSocket.write call.
WriteBuffers == {<<65>>, <<65, 66>>}
\* Credentials of OrientDB.connect(user, password), as bytes ("r", "p").
User == <<114>>
Pass == <<112>>

\* Exception classes.
ConnExc == "PyOrientConnectionException"
PoolExc == "PyOrientConnectionPoolException"
ProtoExc == "PyOrientWrongProtocolVersionException"
BadCallExc == "PyOrientBadMethodCallException"
\* select.error and socket.error are both OSError (socket.timeout too).
OsExc == "OSError"
ValueExc == "ValueError"
DbExc == "PyOrientDatabaseException"
TypeExc == "TypeError"
IndexExc == "IndexError"
\* The connection-error kinds of the client.
ConnectionErrors == {ConnExc, PoolExc}

\* ------------------------------------------------------------- field codec
Min(a, b) == IF a < b THEN a ELSE b

\* Byte i (1 = most significant) of the w-byte big-endian form of u >= 0.
RECURSIVE Pow256(_)
Pow256(k) == IF k = 0 THEN 1 ELSE 256 * Pow256(k - 1)

ByteOf(u, w, i) == (u \div Pow256(w - i)) % 256

\* struct.pack('!i' / '!h', v): w-byte big-endian two's complement.
PackInt(v, w) ==
    IF v >= 0
    THEN [i \in 1..w |-> ByteOf(v, w, i)]
    ELSE [i \in 1..w |-> 255 - ByteOf(-(v + 1), w, i)]

\* Unsigned value of a big-endian byte string.
RECURSIVE Magnitude(_)
Magnitude(b) ==
    IF b = <<>> THEN 0
    ELSE 256 * Magnitude(SubSeq(b, 1, Len(b) - 1)) + b[Len(b)]

\* struct.unpack('!i' / '!h', b)[0].
UnpackInt(b) ==
    IF b # <<>> /\ b[1] >= 128
    THEN -(1 + Magnitude([i \in 1..Len(b) |-> 255 - b[i]]))
    ELSE Magnitude(b)

\* FIELD_INT, FIELD_SHORT, FIELD_BYTES / FIELD_STRING on the wire.
EncodeInt(v) == PackInt(v, 4)
EncodeShort(v) == PackInt(v, 2)
\* struct.pack('!q', v) of a value that fits 32 bits: the sign extended.
EncodeLong(v) ==
    (IF v >= 0 THEN <<0, 0, 0, 0>> ELSE <<255, 255, 255, 255>>) \o PackInt(v, 4)
EncodeBytes(b) == EncodeInt(Len(b)) \o b

\* The field types: one byte wide, integers, and length-prefixed ones.
ByteFields == {"byte", "char", "boolean"}
IntFields == {"short", "int", "long"}
BytesFields == {"bytes", "string"}

\* Fixed width of a field type; a bytes field starts with its 4-byte length.
FieldWidth(t) ==
    IF t \in ByteFields THEN 1
    ELSE IF t = "short" THEN 2
    ELSE IF t = "long" THEN 8
    ELSE 4

\* ------------------------------------------------------------------- state
VARIABLES
    \* OrientSocket
    connected, sock, host, port, protocol,
    session_id, auth_token, db_opened, in_transaction,
    \* OrientDB._auth_token and the ERROR_ON_NEWER_PROTOCOL setting
    clientToken, ERROR_ON_NEWER_PROTOCOL,
    \* OrientDB: the cluster list and the caches _cluster_map and
    \* _cluster_reverse_map
    clusters, cluster_map, cluster_reverse_map,
    \* the peer and the bytes it has in flight towards the client
    peer, inbuf, awaiting,
    \* the call in progress
    pc, rd, frame, pollClock,
    \* observations: the last finished call, the last message built, the
    \* session the last Connect established, the response the server sent to
    \* the request in flight, whether a read has seen the end of the stream
    last, lastMsg, est, srv, dead

sockVars == <<connected, sock, host, port, protocol>>
sessVars == <<session_id, auth_token, db_opened, in_transaction>>
dbVars == <<clusters, cluster_map, cluster_reverse_map>>
cliVars == <<clientToken, ERROR_ON_NEWER_PROTOCOL, dbVars>>
envVars == <<peer, inbuf, awaiting>>
runVars == <<pc, rd, frame, pollClock>>
obsVars == <<last, lastMsg, est, srv, dead>>
vars == <<sockVars, sessVars, cliVars, envVars, runVars, obsVars>>

None == <<>>
Some(v) == <<v>>

\* ----------------------------------------------------------- OrientRecord
\* Keys and strings are sequences of code points. A value is a string, an
\* integer or a nested map; a map is the list of its entries in insertion
\* order.
StrVal(s) == [t |-> "str", s |-> s, m |-> <<>>]
IntVal(n) == [t |-> "int", s |-> <<n>>, m |-> <<>>]
MapVal(m) == [t |-> "map", s |-> <<>>, m |-> m]
Entry(k, v) == [k |-> k, v |-> v]

\* '__rid', '__version', '__o_class', '__o_storage'
KeyRid == <<95, 95, 114, 105, 100>>
KeyVersion == <<95, 95, 118, 101, 114, 115, 105, 111, 110>>
KeyOClass == <<95, 95, 111, 95, 99, 108, 97, 115, 115>>
KeyOStorage == <<95, 95, 111, 95, 115, 116, 111, 114, 97, 103, 101>>

\* The keys of a map.
Keys(m) == {m[i].k : i \in 1..Len(m)}

\* d[k] = v
RECURSIVE Put(_, _, _)
Put(m, k, v) ==
    IF m = <<>> THEN <<Entry(k, v)>>
    ELSE IF Head(m).k = k THEN <<Entry(k, v)>> \o Tail(m)
    ELSE <<Head(m)>> \o Put(Tail(m), k, v)

\* d.get(k, None)
Get(m, k) ==
    IF k \in Keys(m)
    THEN Some((CHOOSE e \in {m[i] : i \in 1..Len(m)} : e.k = k).v)
    ELSE None

\* addslashes: a backslash before every backslash, quote and NUL.
RECURSIVE addslashes(_)
addslashes(string) ==
    IF string = <<>> THEN <<>>
    ELSE (IF Head(string) \in {92, 34, 39, 0}
          THEN <<92, Head(string)>> ELSE <<Head(string)>>)
         \o addslashes(Tail(string))

\* An OrientRecord as __init__ leaves it before it looks at the content:
\* no rid, no version, no class, an empty field map.
NoRecord == [rid |-> None, version |-> None, o_class |-> None,
             storage |-> <<>>]

\* The '@class' branch of __init__: every entry of the nested map is put
\* into the field map, strings with slashes added.
RECURSIVE CopyItems(_, _)
CopyItems(storage, items) ==
    IF items = <<>> THEN storage
    ELSE LET e == Head(items)
             v == IF e.v.t = "str" THEN StrVal(addslashes(e.v.s)) ELSE e.v
         IN  CopyItems(Put(storage, e.k, v), Tail(items))

\* The value None inside a content map, and the attribute it leaves.
NoneVal == [t |-> "None", s |-> <<>>, m |-> <<>>]
Attribute(v) == IF v = NoneVal THEN None ELSE Some(v)

\* One round of the loop over content.keys() in __init__.
SetKey(rec, e) ==
    IF e.k = KeyRid THEN [rec EXCEPT !.rid = Attribute(e.v)]
    ELSE IF e.k = KeyVersion THEN [rec EXCEPT !.version = Attribute(e.v)]
    ELSE IF e.k = KeyOClass THEN [rec EXCEPT !.o_class = Attribute(e.v)]
    ELSE IF e.k # <<>> /\ Head(e.k) = 64
    THEN [rec EXCEPT !.o_class = Some(StrVal(Tail(e.k))),
                     !.storage = CopyItems(rec.storage, e.v.m)]
    ELSE IF e.k = KeyOStorage THEN [rec EXCEPT !.storage = e.v.m]
    ELSE [rec EXCEPT !.storage = Put(rec.storage, e.k, e.v)]

RECURSIVE SetKeys(_, _)
SetKeys(rec, content) ==
    IF content = <<>> THEN rec
    ELSE SetKeys(SetKey(rec, Head(content)), Tail(content))

\* OrientRecord(content)
OrientRecord(content) == SetKeys(NoRecord, content)

\* A slip: update takes the version and forgets the rid.
updateVersionOnly(rec, kwargs) ==
    [rec EXCEPT !.rid = None, !.version = Get(kwargs, KeyVersion)]

\* OrientRecord.update(**kwargs)
update(rec, kwargs) ==
    [rec EXCEPT !.rid = Get(kwargs, KeyRid),
                !.version = Get(kwargs, KeyVersion),
                !.o_class = IF rec.o_class = None
                            THEN Get(kwargs, KeyOClass) ELSE @]

\* str(n) of an integer.
RECURSIVE Digits(_)
Digits(n) ==
    IF n < 10 THEN <<48 + n>> ELSE Append(Digits(n \div 10), 48 + (n % 10))

Str(n) == IF n < 0 THEN <<45>> \o Digits(-n) ELSE Digits(n)

\* The field map {'f': 'a'}, and a record the server knows already: one an
\* earlier round trip gave the class 'c', the rid '#9:4' and the version 2.
FieldMap == <<Entry(<<102>>, StrVal(<<97>>))>>
Known ==
    update(OrientRecord(<<Entry(<<64, 99>>, MapVal(FieldMap))>>),
           <<Entry(KeyVersion, IntVal(2)),
             Entry(KeyRid, StrVal(<<35, 57, 58, 52>>))>>)

\* ------------------------------------------------------------ blank values
NoHs == [got |-> FALSE, bytes |-> <<>>]
NoRd == [n |-> 0, left |-> 0, off |-> 0, buf |-> <<>>, arrived |-> <<>>,
         recvs |-> 0]
\* The response being decoded: the fields still to read and those read, and
\* where fetch_response stands (stage), the result and the callback's
\* deliveries so far, the discriminators read, the records still to come,
\* the bytes consumed.
NoFrame == [op |-> "none", todo |-> <<>>, vals |-> <<>>, part |-> "head",
            stage |-> "", res |-> <<>>, cb |-> <<>>, tags |-> <<>>, cnt |-> 0,
            used |-> 0, tag |-> 0, primary |-> <<>>,
            record |-> NoRecord, record_id |-> <<>>, args |-> <<>>,
            body |-> <<>>]
NoMsg == [made |-> FALSE, command |-> "", session_id |-> -1, auth_token |-> <<>>,
          request_token |-> FALSE]
NoEst == [on |-> FALSE, sid |-> -1, token |-> <<>>]
\* What the server sent in answer to the request in flight.
NoSrv == [on |-> FALSE, sid |-> -1, token |-> <<>>, kind |-> "", len |-> 0,
          tag |-> 0, n |-> 0, stream |-> <<>>, count |-> 0, full |-> TRUE,
          version |-> -1, cut |-> FALSE, tags |-> <<>>, cluster |-> -1,
          position |-> -1, content |-> <<>>, range |-> <<>>]
\* A call's result other than a number: None, the message itself, a list, a
\* record, Record Update's triple, a scalar.
NoResult == [kind |-> "none", items |-> <<>>, chng |-> 0, changes |-> 0,
             fields |-> <<>>]
NoLast == [op |-> "init", outcome |-> "ok", path |-> "", ret |-> None,
           data |-> <<>>, arg |-> <<>>, n |-> 0, recvs |-> 0, poll |-> "none",
           hs |-> NoHs, msg |-> "", params |-> <<>>, req |-> <<>>,
           pre |-> <<>>, srv |-> NoSrv, used |-> 0, result |-> NoResult,
           cb |-> <<>>, tags |-> <<>>, record |-> NoRecord, swallowed |-> "",
           stage |-> "", limit |-> None, built |-> NoMsg, passed |-> NoRecord,
           record_id |-> <<>>, args |-> <<>>, body |-> <<>>]

\* While a call is in progress no call is the last finished one.
Running == [NoLast EXCEPT !.op = "running"]

\* OrientSocket.__init__ and OrientDB.__init__.
Init ==
    /\ connected = FALSE
    /\ sock = "fresh"
    /\ host = "localhost"
    /\ port = 2424
    /\ protocol = -1
    /\ session_id = -1
    /\ auth_token = <<>>
    /\ db_opened = "None"
    /\ in_transaction = FALSE
    /\ clientToken = "None"
    /\ clusters = <<>>
    /\ cluster_map = None
    /\ cluster_reverse_map = None
    /\ ERROR_ON_NEWER_PROTOCOL \in BOOLEAN
    /\ peer = "none"
    /\ inbuf = <<>>
    /\ awaiting = FALSE
    /\ pc = "idle"
    /\ rd = NoRd
    /\ frame = NoFrame
    /\ pollClock = 0
    /\ last = NoLast
    /\ lastMsg = NoMsg
    /\ est = NoEst
    /\ srv = NoSrv
    /\ dead = FALSE

\* ------------------------------------------------- OrientSocket.connect
\* A slip: any non-empty answer is taken for the handshake short.
HandshakeNonEmpty(answer) == Len(answer) >= 1

\* The handshake short: a short is 2 bytes long.
HandshakeComplete(answer) == Len(answer) = 2

\* A slip: the strict-rejection setting is not consulted.
RejectNewerAlways(proto, strict) == proto > SUPPORTED_PROTOCOL

\* A newer protocol is rejected only under strict rejection.
RejectNewer(proto, strict) == proto > SUPPORTED_PROTOCOL /\ strict

\* What the server's side of the handshake may hand to socket.recv(2).
HandshakeAnswers ==
    {EncodeShort(v) : v \in ServerProtocols}
        \cup {SubSeq(EncodeShort(v), 1, 1) : v \in ServerProtocols}
        \cup {<<>>}

ConnOut(c, s, p, pr, exc, path, hs) ==
    [connected |-> c, sock |-> s, protocol |-> p, peer |-> pr,
     exc |-> exc, path |-> path, hs |-> hs]

\* A slip: a socket that was closed is replaced by a new one, which connects.
ConnectClosedReopens(c) ==
    {ConnOut(TRUE, "open", SUPPORTED_PROTOCOL, "alive", "ok", "connected",
             [got |-> TRUE, bytes |-> EncodeShort(SUPPORTED_PROTOCOL)])}

\* connect() on the socket of __init__ after it was closed: settimeout on a
\* closed descriptor is EBADF, a socket.error.
ConnectClosed(c) ==
    {ConnOut(FALSE, c.sock, c.protocol, c.peer, ConnExc, "settimeout_error", NoHs)}

\* The outcomes of connect() from the state c = [connected, sock, protocol, peer].
ConnectOutcomes(c, strict) ==
    IF c.sock = "closed"
    THEN ConnectClosed(c)
    ELSE IF c.sock = "open"
    THEN \* socket.connect on a connected socket: EISCONN, a socket.error
         {ConnOut(FALSE, c.sock, c.protocol, c.peer, ConnExc, "connect_error", NoHs)}
    ELSE \* socket.connect refused or timed out
         {ConnOut(FALSE, "fresh", c.protocol, c.peer, ConnExc, "connect_error", NoHs)}
         \cup \* connected; socket.recv raises (timeout, reset)
         {ConnOut(FALSE, "open", c.protocol, pr, ConnExc, "recv_error", NoHs) :
             pr \in {"alive", "halfopen"}}
         \cup \* connected; socket.recv returns an answer
         {IF ~HandshakeComplete(a)
          THEN ConnOut(c.connected, "closed", c.protocol, "closed", PoolExc,
                       "short_answer", [got |-> TRUE, bytes |-> a])
          ELSE IF RejectNewer(UnpackInt(a), strict)
          THEN ConnOut(c.connected, "open", UnpackInt(a), "alive", ProtoExc,
                       "newer_protocol", [got |-> TRUE, bytes |-> a])
          ELSE ConnOut(TRUE, "open", UnpackInt(a), "alive", "ok",
                       "connected", [got |-> TRUE, bytes |-> a]) :
             a \in HandshakeAnswers}

\* OrientSocket.get_connection: connect unless connected.
GetConnectionOutcomes(c, strict) ==
    IF ~c.connected
    THEN ConnectOutcomes(c, strict)
    ELSE {ConnOut(c.connected, c.sock, c.protocol, c.peer, "ok", "already", NoHs)}

Here == [connected |-> connected, sock |-> sock, protocol |-> protocol, peer |-> peer]

\* A descriptor the client closed holds no received bytes any more.
InbufAfter(s) == IF s = "closed" THEN <<>> ELSE inbuf

Connect ==
    /\ pc = "idle"
    /\ \E o \in ConnectOutcomes(Here, ERROR_ON_NEWER_PROTOCOL) :
        /\ connected' = o.connected
        /\ sock' = o.sock
        /\ protocol' = o.protocol
        /\ peer' = o.peer
        /\ inbuf' = InbufAfter(o.sock)
        /\ last' = [NoLast EXCEPT !.op = "connect", !.outcome = o.exc,
                                  !.path = o.path, !.hs = o.hs]
    /\ UNCHANGED <<host, port, sessVars, cliVars, awaiting, runVars,
                   lastMsg, est, srv, dead>>

GetConnection ==
    /\ pc = "idle"
    /\ \E o \in GetConnectionOutcomes(Here, ERROR_ON_NEWER_PROTOCOL) :
        /\ connected' = o.connected
        /\ sock' = o.sock
        /\ protocol' = o.protocol
        /\ peer' = o.peer
        /\ inbuf' = InbufAfter(o.sock)
        /\ last' = [NoLast EXCEPT !.op = "get_connection", !.outcome = o.exc,
                                  !.path = o.path, !.hs = o.hs]
    /\ UNCHANGED <<host, port, sessVars, cliVars, awaiting, runVars,
                   lastMsg, est, srv, dead>>

\* --------------------------------------------------- OrientSocket.close
\* A slip: close forgets the token, the database and the transaction too.
CloseResetsAll ==
    /\ pc = "idle"
    /\ sock' = "closed"
    /\ connected' = FALSE
    /\ host' = ""
    /\ port' = 0
    /\ protocol' = -1
    /\ session_id' = -1
    /\ auth_token' = <<>>
    /\ db_opened' = "None"
    /\ in_transaction' = FALSE
    /\ inbuf' = <<>>
    /\ awaiting' = FALSE
    /\ est' = NoEst
    /\ last' = [NoLast EXCEPT !.op = "close"]
    /\ UNCHANGED <<cliVars, peer, runVars, lastMsg, srv, dead>>

Close ==
    /\ pc = "idle"
    /\ sock' = "closed"
    /\ connected' = FALSE
    /\ host' = ""
    /\ port' = 0
    /\ protocol' = -1
    /\ session_id' = -1
    /\ inbuf' = <<>>
    /\ awaiting' = FALSE
    /\ est' = NoEst
    /\ last' = [NoLast EXCEPT !.op = "close"]
    /\ UNCHANGED <<auth_token, db_opened, in_transaction, cliVars, peer,
                   runVars, lastMsg, srv, dead>>

\* --------------------------------------------------- OrientSocket.write
WriteOut(c, s, exc, path, ret, poll, sent) ==
    [connected |-> c, sock |-> s, exc |-> exc, path |-> path, ret |-> ret,
     poll |-> poll, sent |-> sent]

\* The outcomes of write(buff) from the state c = [connected, sock, peer].
WriteOutcomes(c, buff) ==
    IF c.sock = "closed"
    THEN \* select.select on a closed descriptor raises ValueError, which
         \* "except select.error" does not catch
         {WriteOut(c.connected, c.sock, ValueExc, "closed_fd", None, "none", <<>>)}
    ELSE \* select.select raises
         {WriteOut(FALSE, "closed", OsExc, "poll_exception", None, "exception", <<>>)}
         \cup \* in_error, or not ready to write within the timeout
         {WriteOut(FALSE, "closed", ConnExc, "poll_failed", None, "notwritable", <<>>)}
         \cup \* writable and not in error: sendall sends everything
         {WriteOut(c.connected, c.sock, "ok", "sent", Some(Len(buff)), "writable", buff)}
         \cup \* writable and not in error: sendall raises (EPIPE, timeout)
         {WriteOut(c.connected, c.sock, OsExc, "sendall_error", None, "writable", <<>>) :
             x \in IF c.peer = "alive" THEN {} ELSE {1}}

\* write is reached through a message's send, and constructing the message
\* has connected the socket (get_connection).
Write(buff) ==
    /\ pc = "idle"
    /\ sock # "fresh"
    /\ \E o \in WriteOutcomes(Here, buff) :
        /\ connected' = o.connected
        /\ sock' = o.sock
        /\ inbuf' = InbufAfter(o.sock)
        /\ last' = [NoLast EXCEPT !.op = "write", !.outcome = o.exc,
                                  !.path = o.path, !.ret = o.ret,
                                  !.arg = buff, !.data = o.sent,
                                  !.poll = o.poll]
    /\ UNCHANGED <<host, port, protocol, sessVars, cliVars, peer, awaiting,
                   runVars, lastMsg, est, srv, dead>>

\* ---------------------------------------------------- OrientSocket.read
\* The call in progress ends: back to the caller.
EndCall(l) ==
    /\ pc' = "idle"
    /\ rd' = NoRd
    /\ frame' = NoFrame
    /\ pollClock' = 0
    /\ awaiting' = FALSE
    /\ srv' = NoSrv
    /\ last' = [l EXCEPT !.srv = srv]

\* The next read(n) of the call in progress starts at the poll.
StartRead(n, f) ==
    /\ pc' = "read_poll"
    /\ rd' = [NoRd EXCEPT !.n = n, !.left = n]
    /\ frame' = f
    /\ pollClock' = 0
    /\ last' = Running

\* The call in progress goes on with what it has.
GoOn == UNCHANGED <<session_id, auth_token, lastMsg, est, awaiting, srv>>

\* read raises: the exception leaves read and every caller above it.
ReadRaises(exc, path) ==
    /\ EndCall([NoLast EXCEPT !.op = frame.op, !.outcome = exc, !.path = path,
                              !.n = rd.n, !.arg = rd.arrived,
                              !.recvs = rd.recvs, !.stage = frame.stage,
                              !.used = frame.used, !.tags = frame.tags,
                              !.cb = frame.cb])
    /\ UNCHANGED <<session_id, auth_token, lastMsg, est>>

\* A slip: the session id is taken from the commandNr field.
ConnectResultCommandNr(result) == result[2].i

\* ConnectMessage.fetch_response unpacks the four declared fields:
\* content, commandNr, sessionId, sessionToken.
ConnectResultSession(result) == result[3].i
ConnectResultToken(result) == result[4].b

\* ConnectMessage.fetch_response has no return statement.
ConnectFetchResult(sid) == None

\* ConnectMessage.fetch_response after the fields are decoded: the message's
\* session id and token go to the socket (_update_socket_token,
\* _update_socket_id).
FetchDone(vals) ==
    LET result == Tail(vals)
        sid == ConnectResultSession(result)
        tok == ConnectResultToken(result)
    IN  /\ session_id' = sid
        /\ auth_token' = tok
        /\ lastMsg' = NoMsg
        /\ est' = [on |-> TRUE, sid |-> srv.sid, token |-> srv.token]
        /\ EndCall([NoLast EXCEPT !.op = frame.op,
                                  !.ret = ConnectFetchResult(sid)])

\* ------------------------------------------------ responses, field by field
\* The next fields of the response in progress: the field list is reset and
\* the first field is read.
Continue(f, todo, stage) ==
    /\ StartRead(FieldWidth(Head(todo)),
                 [f EXCEPT !.todo = todo, !.vals = <<>>, !.part = "head",
                           !.stage = stage])
    /\ GoOn

\* fetch_response returns result to the caller.
Return(f, result, record, swallowed) ==
    /\ EndCall([NoLast EXCEPT !.op = f.op, !.result = result, !.used = f.used,
                              !.cb = f.cb, !.tags = f.tags, !.stage = f.stage,
                              !.record = record, !.swallowed = swallowed,
                              !.passed = f.record,
                              !.record_id = f.record_id,
                              !.args = f.args, !.body = f.body])
    /\ UNCHANGED <<session_id, auth_token, lastMsg, est>>

\* A record on the wire: record type, version, content.
RecordFields == <<"byte", "int", "bytes">>

\* The Record decoded from those three fields.
RecordOf(vals) == [kind |-> "record", version |-> vals[2].i, content |-> vals[3].b]

\* res[0].oRecordData['result']: the 'result' field of a decoded record.
ResultField(rec) == [kind |-> "field", version |-> 0, content |-> rec.content]

\* The serialized blob of an 'a' result.
Blob(b) == [kind |-> "blob", version |-> 0, content |-> b]

ListResult(items) == [NoResult EXCEPT !.kind = "list", !.items = items]

\* The result-type tags of a synchronous command: 'n', 'r', 'w', 'a', 'l'.
TagN == 110
TagR == 114
TagW == 119
TagA == 97
TagL == 108

\* A slip: the list's records are gathered newest first.
GatherFirst(res, rec) == <<rec>> \o res

\* res.append(self._read_record())
Gather(res, rec) == Append(res, rec)

\* What _read_sync returns for the tags that end with the terminating byte.
SyncResult(tag, res, vals) ==
    IF tag = TagN THEN NoResult
    ELSE IF tag = TagR THEN ListResult(res)
    ELSE IF tag = TagW THEN ListResult(<<ResultField(res[1])>>)
    ELSE ListResult(<<Blob(vals[1].b)>>)

\* CommandMessage._read_sync, one step: the fields asked for are decoded.
ReadSync(f) ==
    IF f.stage = "tag"
    THEN LET tag == f.vals[1].i
             g == [f EXCEPT !.tag = tag]
         IN  IF tag = TagN THEN Continue(g, <<"char">>, "end")
             ELSE IF tag = TagR \/ tag = TagW THEN Continue(g, RecordFields, "record")
             ELSE IF tag = TagA THEN Continue(g, <<"string", "char">>, "end")
             ELSE IF tag = TagL THEN Continue(g, <<"int">>, "len")
             ELSE Continue(g, <<"byte">>, "debug")
    ELSE IF f.stage = "record"
    THEN Continue([f EXCEPT !.res = <<RecordOf(f.vals)>>], <<"char">>, "end")
    ELSE IF f.stage = "end"
    THEN Return(f, SyncResult(f.tag, f.res, f.vals), NoRecord, "")
    ELSE IF f.stage = "len"
    THEN LET list_len == f.vals[1].i
         IN  IF list_len > 0
             THEN Continue([f EXCEPT !.cnt = list_len], RecordFields, "lrec")
             ELSE Return(f, ListResult(<<>>), NoRecord, "")
    ELSE IF f.stage = "lrec"
    THEN LET res == Gather(f.res, RecordOf(f.vals))
         IN  IF f.cnt > 1
             THEN Continue([f EXCEPT !.res = res, !.cnt = f.cnt - 1],
                           RecordFields, "lrec")
             ELSE Return([f EXCEPT !.res = res], ListResult(res), NoRecord, "")
    ELSE \* an unknown tag: read(1) again and again
         Continue(f, <<"byte">>, "debug")

\* CommandMessage.fetch_response in asynchronous mode calls
\* _read_async_records and has no return statement.
AsyncFetchResult(res) == NoResult

\* bytes.rstrip(): the ASCII whitespace at the end is dropped.
Whitespace == {9, 10, 11, 12, 13, 32}
RECURSIVE rstrip(_)
rstrip(b) ==
    IF b # <<>> /\ b[Len(b)] \in Whitespace
    THEN rstrip(SubSeq(b, 1, Len(b) - 1)) ELSE b

\* b.find(c) + 1: the first place of the byte c in b, 0 when there is none.
Find(b, c) ==
    IF \E i \in 1..Len(b) : b[i] = c
    THEN CHOOSE i \in 1..Len(b) : b[i] = c /\ \A j \in 1..(i - 1) : b[j] # c
    ELSE 0

\* The record serializer's decode(bytes) -> (class_name, fields) on a
\* document "class@name:value": the class name is what stands before '@'
\* (None without one), the field map has the one entry name -> value.
decode(content) ==
    LET at == Find(content, 64)
        body == SubSeq(content, at + 1, Len(content))
        colon == Find(body, 58)
    IN  [class_name |-> IF at = 0 THEN NoneVal
                        ELSE StrVal(SubSeq(content, 1, at - 1)),
         data |-> IF colon = 0 THEN <<>>
                  ELSE <<Entry(SubSeq(body, 1, colon - 1),
                               StrVal(SubSeq(body, colon + 1, Len(body))))>>]

\* A slip: the record type is taken for the version.
LoadedVersionType(record) == record[1].i

\* __record[1] of the three fields record type, version, content.
LoadedVersion(record) == record[2].i

\* The record Record Load returns when one is present:
\* OrientRecord(dict(__o_storage=data, __o_class=class_name,
\* __version=__record[1], __rid=self._record_id)) with class_name, data
\* decoded from the content stripped of its trailing whitespace.
LoadedRecord(record, record_id) ==
    LET d == decode(rstrip(record[3].b))
    IN  OrientRecord(<<Entry(KeyOStorage, MapVal(d.data)),
                       Entry(KeyOClass, d.class_name),
                       Entry(KeyVersion, IntVal(LoadedVersion(record))),
                       Entry(KeyRid, StrVal(record_id))>>)

\* What the caller of _read_async_records does once it has returned.
AfterAsync(f) ==
    IF f.op = "record_load"
    THEN Return(f, [NoResult EXCEPT !.kind = "record"],
                LoadedRecord(f.primary, f.record_id), "")
    ELSE Return(f, AsyncFetchResult(f.res), NoRecord, "")

\* BaseMessage._read_async_records, one step: a discriminator (0 done,
\* 1 result-set record, 2 prefetch-only record) or the record after it.
ReadAsyncRecords(f) ==
    IF f.stage = "status"
    THEN LET d == f.vals[1].i
             g == [f EXCEPT !.tags = Append(f.tags, d)]
         IN  IF d = 0
             THEN AfterAsync(g)
             ELSE Continue(g, RecordFields, "arec")
    ELSE LET rec == RecordOf(f.vals)
             d == f.tags[Len(f.tags)]
         IN  Continue([f EXCEPT !.res = IF d = 1 THEN Append(f.res, rec) ELSE f.res,
                                !.cb = IF d = 1 THEN f.cb ELSE Append(f.cb, rec)],
                      <<"byte">>, "status")

\* CommandMessage.fetch_response after the header.
CommandFetch(f) ==
    IF f.stage = "header"
    THEN IF f.op = "command_async"
         THEN Continue(f, <<"byte">>, "status")
         ELSE Continue(f, <<"char">>, "tag")
    ELSE IF f.op = "command_async" THEN ReadAsyncRecords(f)
    ELSE ReadSync(f)

\* RecordLoadMessage.fetch_response after the header and the presence
\* byte: nothing more when the byte is 0; else record type, version and
\* content, then the records _read_async_records finds after them.
LoadFetch(f) ==
    IF f.stage = "primary"
    THEN IF f.vals[2].i # 0
         THEN Continue(f, RecordFields, "loaded")
         ELSE Return(f, [NoResult EXCEPT !.kind = "record"], OrientRecord(<<>>), "")
    ELSE IF f.stage = "loaded"
    THEN Continue([f EXCEPT !.primary = f.vals], <<"byte">>, "status")
    ELSE ReadAsyncRecords(f)

\* DataClusterDataRangeMessage.fetch_response: the list of the two longs
\* declared, as BaseMessage.fetch_response returns it.
DataRangeFetch(f) ==
    Return(f, [NoResult EXCEPT !.kind = "fields",
                               !.fields = <<f.vals[2].i, f.vals[3].i>>],
           NoRecord, "")

\* One collection change: two UUID halves, file id, page index, page offset.
ChangeFields == <<"long", "long", "long", "long", "int">>

\* The record after Record Create: update(__version=version, __rid=rid)
\* with rid = "#" + str(cluster id) + ":" + str(position) of the response.
CreatedRecord(rec, result) ==
    update(rec, <<Entry(KeyVersion, IntVal(result[3].i)),
                  Entry(KeyRid, StrVal(<<35>> \o Str(result[1].i) \o <<58>>
                                       \o Str(result[2].i)))>>)

\* The record after Record Update: update(__version=result[0]).
UpdatedRecord(rec, result) ==
    update(rec, <<Entry(KeyVersion, IntVal(result[1].i))>>)

\* The end of fetch_response of Record Create / Record Update, after the
\* collection-change trailer.
RecordFinish(f, chng, changes, swallowed) ==
    IF f.op = "record_create"
    THEN Return(f, [NoResult EXCEPT !.kind = "record"],
                CreatedRecord(f.record, f.primary), swallowed)
    ELSE Return(f, [NoResult EXCEPT !.kind = "update", !.chng = chng,
                                    !.changes = changes],
                UpdatedRecord(f.record, f.primary), swallowed)

\* fetch_response of Record Create, Record Update and Record Delete.
RecordFetch(f) ==
    IF f.stage = "primary"
    THEN IF f.op = "record_delete"
         THEN Return(f, [NoResult EXCEPT !.kind = "scalar", !.chng = f.vals[2].i],
                     NoRecord, "")
         ELSE Continue([f EXCEPT !.primary = Tail(f.vals)], <<"int">>, "count")
    ELSE IF f.stage = "count"
    THEN LET chng == f.vals[1].i
         IN  IF chng > 0
             THEN Continue([f EXCEPT !.cnt = chng, !.tag = chng], ChangeFields, "tuple")
             ELSE RecordFinish(f, chng, 0, "")
    ELSE LET changes == Len(f.res) + 1
         IN  IF f.cnt > 1
             THEN Continue([f EXCEPT !.cnt = f.cnt - 1,
                                     !.res = Append(f.res, Blob(<<>>))],
                           ChangeFields, "tuple")
             ELSE RecordFinish(f, f.tag, changes, "")

\* A slip: the count's handler catches the connection error only.
TrailerCaughtConnOnly(op, stage, exc) ==
    IF stage = "count" THEN exc = ConnExc
    ELSE op = "record_create" /\ exc \in {ConnExc, TypeExc}

\* The except clauses around the trailer: both messages catch a connection
\* error and a TypeError while decoding the count; while decoding the changes
\* Record Create catches the same, Record Update an IndexError only.
TrailerCaught(op, stage, exc) ==
    IF stage = "count" THEN exc \in {ConnExc, TypeExc}
    ELSE op = "record_create" /\ exc \in {ConnExc, TypeExc}

\* An exception met while a field is read or decoded: a handler of the
\* trailer catches it, or it leaves fetch_response.
Raised(exc, path) ==
    IF /\ frame.op \in {"record_create", "record_update"}
       /\ frame.stage \in {"count", "tuple"}
       /\ TrailerCaught(frame.op, frame.stage, exc)
    THEN RecordFinish(frame, IF frame.stage = "count" THEN 0 ELSE frame.tag,
                      Len(frame.res), path)
    ELSE ReadRaises(exc, path)

\* The fields asked for are decoded: the message goes on.
Decoded(f) ==
    IF f.op = "client_connect" THEN FetchDone(f.vals)
    ELSE IF f.op \in {"command", "command_async"} THEN CommandFetch(f)
    ELSE IF f.op = "record_load" THEN LoadFetch(f)
    ELSE IF f.op = "data_cluster_data_range" THEN DataRangeFetch(f)
    ELSE RecordFetch(f)

\* BaseMessage._decode_field on the bytes one read returned: a byte, an int,
\* or a bytes field (its 4-byte length, then that many bytes).
Feed(data) ==
    LET t == Head(frame.todo)
        len == UnpackInt(data)
        used == frame.used + Len(data)
    IN  IF t \in BytesFields /\ frame.part = "head" /\ len > 0
        THEN /\ StartRead(len, [frame EXCEPT !.part = "payload", !.used = used])
             /\ GoOn
        ELSE LET val == IF t \in ByteFields THEN [i |-> data[1], b |-> <<>>]
                        ELSE IF t \in IntFields
                        THEN [i |-> UnpackInt(data), b |-> <<>>]
                        ELSE [i |-> 0,
                              b |-> IF frame.part = "payload" THEN data ELSE <<>>]
                 vals == Append(frame.vals, val)
                 todo == Tail(frame.todo)
             IN  IF todo # <<>>
                 THEN /\ StartRead(FieldWidth(Head(todo)),
                                   [frame EXCEPT !.todo = todo, !.vals = vals,
                                                 !.part = "head", !.used = used])
                      /\ GoOn
                 ELSE Decoded([frame EXCEPT !.todo = todo, !.vals = vals,
                                            !.part = "head", !.used = used])

\* read returns bytes(buf).
ReadReturns(data, arrived, recvs) ==
    IF frame.op = "read"
    THEN /\ EndCall([NoLast EXCEPT !.op = "read", !.data = data, !.n = rd.n,
                                   !.arg = arrived, !.recvs = recvs])
         /\ UNCHANGED <<session_id, auth_token, lastMsg, est>>
    ELSE \/ Feed(data)
         \/ /\ frame.stage \in {"count", "tuple"}
            /\ Raised(TypeExc, "type_mismatch")

\* A call of OrientSocket.read(n) by a message that decodes a field;
\* constructing the message has connected the socket (get_connection).
ReadCall(n) ==
    /\ pc = "idle"
    /\ sock # "fresh"
    /\ StartRead(n, [NoFrame EXCEPT !.op = "read"])
    /\ UNCHANGED <<sockVars, sessVars, cliVars, envVars, lastMsg, est,
                   srv, dead>>

\* select reports the socket readable: data is buffered, or the peer has
\* closed (end of stream).
Readable == sock = "open" /\ (inbuf # <<>> \/ peer = "closed")

\* buf = bytearray(_len_to_read)
NewBuffer(n) == [i \in 1..n |-> 0]

\* The loop head of read: one select.select with its 30 s timeout.
ReadPoll ==
    /\ pc = "read_poll"
    /\ \/ \* select.select on a closed descriptor raises ValueError
          /\ sock = "closed"
          /\ Raised(ValueExc, "closed_fd")
          /\ UNCHANGED <<connected, sock, inbuf>>
       \/ \* select.select raises select.error
          /\ sock = "open"
          /\ connected' = FALSE
          /\ sock' = "closed"
          /\ inbuf' = <<>>
          /\ Raised(OsExc, "poll_exception")
       \/ \* ready to read
          /\ Readable
          /\ IF rd.left = 0
             THEN ReadReturns(NewBuffer(0), rd.arrived, rd.recvs)
             ELSE /\ pc' = "read_recv"
                  /\ rd' = [rd EXCEPT !.buf = NewBuffer(rd.left)]
                  /\ UNCHANGED <<frame, pollClock, last>>
                  /\ GoOn
          /\ UNCHANGED <<connected, sock, inbuf>>
       \/ \* not readable, in error: close and raise (connected is not touched)
          /\ sock = "open"
          /\ ~Readable
          /\ peer # "halfopen"
          /\ sock' = "closed"
          /\ inbuf' = <<>>
          /\ Raised(ConnExc, "poll_in_error")
          /\ UNCHANGED connected
       \/ \* neither readable nor in error within the timeout: poll again
          /\ sock = "open"
          /\ ~Readable
          /\ pollClock' = 1 - pollClock
          /\ UNCHANGED <<connected, sock, inbuf, pc, rd, frame, last>>
          /\ GoOn
    /\ UNCHANGED <<host, port, protocol, db_opened, in_transaction, cliVars,
                   peer, dead>>

\* A slip: the view is never advanced, every chunk lands at the start of buf.
RecvIntoAtStart(buf, off, chunk) ==
    [i \in 1..Len(buf) |-> IF i <= Len(chunk) THEN chunk[i] ELSE buf[i]]

\* recv_into(view, _len_to_read) writes the bytes received at the start of
\* the view, which begins `off` bytes into buf.
RecvInto(buf, off, chunk) ==
    [i \in 1..Len(buf) |->
        IF off < i /\ i <= off + Len(chunk) THEN chunk[i - off] ELSE buf[i]]

\* view = view[n_bytes:]
ViewAfter(off, n_bytes) == off + n_bytes

\* while _len_to_read:
LoopContinues(left) == left # 0

\* The inner loop of read: one recv_into.
ReadRecv ==
    /\ pc = "read_recv"
    /\ \/ \* some of the buffered bytes arrive
          /\ sock = "open"
          /\ inbuf # <<>>
          /\ \E k \in 1..Min(Len(inbuf), rd.left) :
              LET chunk == SubSeq(inbuf, 1, k)
                  buf == RecvInto(rd.buf, rd.off, chunk)
                  left == rd.left - k
                  arrived == rd.arrived \o chunk
              IN  /\ inbuf' = SubSeq(inbuf, k + 1, Len(inbuf))
                  /\ IF LoopContinues(left)
                     THEN /\ rd' = [rd EXCEPT !.buf = buf, !.left = left,
                                              !.off = ViewAfter(rd.off, k),
                                              !.arrived = arrived,
                                              !.recvs = rd.recvs + 1]
                          /\ UNCHANGED <<pc, frame, pollClock, last>>
                          /\ GoOn
                     ELSE ReadReturns(buf, arrived, rd.recvs + 1)
          /\ UNCHANGED <<connected, sock, dead>>
       \/ \* nothing read: the peer closed; close and raise (connected is not
          \* touched)
          /\ sock = "open"
          /\ inbuf = <<>>
          /\ peer = "closed"
          /\ sock' = "closed"
          /\ dead' = TRUE
          /\ Raised(ConnExc, "zero_byte")
          /\ UNCHANGED <<connected, inbuf>>
       \/ \* nothing arrives within the socket timeout: socket.timeout
          /\ sock = "open"
          /\ inbuf = <<>>
          /\ peer # "closed"
          /\ Raised(OsExc, "recv_error")
          /\ UNCHANGED <<connected, sock, inbuf, dead>>
    /\ UNCHANGED <<host, port, protocol, db_opened, in_transaction, cliVars,
                   peer>>

\* ------------------------------------------------------------ OrientDB
\* The operation names of the MESSAGES registry that orient.py refers to.
MESSAGES == {"ConnectMessage", "ShutdownMessage", "CommandMessage",
             "RecordCreateMessage", "RecordLoadMessage", "RecordUpdateMessage",
             "RecordDeleteMessage", "DataClusterAddMessage",
             "DataClusterCountMessage", "DataClusterDataRangeMessage",
             "DataClusterDropMessage"}

\* The commands get_message is asked for: registered ones, one that is not
\* registered, and no command at all.
Commands == {"CommandMessage", "FooMessage", "None"}

\* A token argument: bytes, a bool, or None.
TokBytes(b) == [kind |-> "bytes", b |-> b, v |-> FALSE]
TokBool(v) == [kind |-> "bool", b |-> <<>>, v |-> v]
TokNone == [kind |-> "none", b |-> <<>>, v |-> FALSE]

\* OrientDB._auth_token: None until set_session_token sets a bool.
ClientSetting(ct) ==
    IF ct = "None" THEN TokNone ELSE TokBool(ct = "True")

\* A slip: the client's token setting is used whatever the connection holds.
GetMessageTokenClientOnly(conn_token, ct) == ClientSetting(ct)

\* A slip: a setting the client made goes before the connection's token.
GetMessageTokenSettingFirst(conn_token, ct) ==
    IF ct # "None" \/ conn_token = <<>> THEN ClientSetting(ct)
    ELSE TokBytes(conn_token)

\* get_message: the connection's token when it is not empty, else the
\* client's token setting.
GetMessageToken(conn_token, ct) ==
    IF conn_token # <<>> THEN TokBytes(conn_token) ELSE ClientSetting(ct)

\* BaseMessage.__init__: the message takes the socket's session id and token.
NewMessage(command, sid, tok) ==
    [made |-> TRUE, command |-> command, session_id |-> sid, auth_token |-> tok,
     request_token |-> FALSE]

\* BaseMessage.set_session_token: a bool switches the token request; a
\* non-empty token is stored on the message and requested.
SetSessionToken(msg, token) ==
    IF token.kind = "bool" THEN [msg EXCEPT !.request_token = token.v]
    ELSE IF token.kind = "bytes" /\ token.b # <<>>
    THEN [msg EXCEPT !.request_token = TRUE, !.auth_token = token.b]
    ELSE msg

\* ... and writes a non-empty token back to the socket (_update_socket_token).
SocketTokenAfter(sock_token, token) ==
    IF token.kind = "bytes" /\ token.b # <<>> THEN token.b ELSE sock_token

\* The message get_message builds once the message class is constructed.
BuildMessage(command) ==
    SetSessionToken(NewMessage(command, session_id, auth_token),
                    GetMessageToken(auth_token, clientToken))

\* The token of a message's request header: empty when none is requested.
HeaderToken(msg) == IF msg.request_token THEN msg.auth_token ELSE <<>>

\* The request on the wire: length, operation code, session id, token, then
\* the operation's fields.
EncodeRequest(msg, op, fields) ==
    LET body == <<op>> \o EncodeInt(msg.session_id)
                    \o EncodeBytes(HeaderToken(msg))
                    \o fields
    IN  EncodeInt(Len(body)) \o body

\* OrientDB.set_session_token(enable_token_authentication)
SetClientToken(b) ==
    /\ pc = "idle"
    /\ clientToken' = IF b THEN "True" ELSE "False"
    /\ last' = [NoLast EXCEPT !.op = "set_session_token"]
    /\ UNCHANGED <<sockVars, sessVars, ERROR_ON_NEWER_PROTOCOL, dbVars,
                   envVars, runVars, lastMsg, est, srv, dead>>

\* What a message may touch of the connection.
ConnState ==
    [connected |-> connected, sock |-> sock, protocol |-> protocol,
     session_id |-> session_id, auth_token |-> auth_token,
     db_opened |-> db_opened, in_transaction |-> in_transaction]

\* A slip: the usage error is raised and the connection left as it is.
KeyErrorKeeps ==
    UNCHANGED <<sock, connected, host, port, protocol, session_id, inbuf,
                awaiting, est>>

\* except KeyError: self.close(), which is OrientSocket.close.
KeyErrorCloses ==
    /\ sock' = "closed"
    /\ connected' = FALSE
    /\ host' = ""
    /\ port' = 0
    /\ protocol' = -1
    /\ session_id' = -1
    /\ inbuf' = <<>>
    /\ awaiting' = FALSE
    /\ est' = NoEst

\* OrientDB.get_message(command)
GetMessage(command) ==
    /\ pc = "idle"
    /\ \/ \* command is None: nothing is built, None is returned
          /\ command = "None"
          /\ last' = [NoLast EXCEPT !.op = "get_message", !.path = "none"]
          /\ UNCHANGED <<sockVars, sessVars, envVars, lastMsg, est>>
       \/ \* MESSAGES[command] raises KeyError: close, then a usage error
          /\ command # "None"
          /\ command \notin MESSAGES
          /\ KeyErrorCloses
          /\ last' = [NoLast EXCEPT !.op = "get_message", !.outcome = BadCallExc,
                                    !.path = "key_error", !.pre = ConnState]
          /\ UNCHANGED <<auth_token, db_opened, in_transaction, peer, lastMsg>>
       \/ \* the message class is constructed on the connection
          /\ command \in MESSAGES
          /\ \E g \in GetConnectionOutcomes(Here, ERROR_ON_NEWER_PROTOCOL) :
              /\ connected' = g.connected
              /\ sock' = g.sock
              /\ protocol' = g.protocol
              /\ peer' = g.peer
              /\ inbuf' = InbufAfter(g.sock)
              /\ IF g.exc # "ok"
                 THEN /\ last' = [NoLast EXCEPT !.op = "get_message",
                                     !.outcome = g.exc, !.path = g.path, !.hs = g.hs]
                      /\ UNCHANGED <<auth_token, lastMsg>>
                 ELSE /\ lastMsg' = BuildMessage(command)
                      /\ auth_token' = SocketTokenAfter(auth_token,
                                          GetMessageToken(auth_token, clientToken))
                      /\ last' = [NoLast EXCEPT !.op = "get_message",
                                     !.path = "built", !.hs = g.hs]
          /\ UNCHANGED <<host, port, session_id, db_opened, in_transaction,
                         awaiting, est>>
    /\ UNCHANGED <<cliVars, runVars, srv, dead>>

\* The fields ConnectMessage.fetch_response declares, after the status byte
\* of the response header.
ConnectFields == <<"byte", "bytes", "byte", "int", "bytes">>

\* OrientDB.connect(user, password): get_message("ConnectMessage"),
\* prepare, send; fetch_response then reads field by field.
ClientConnect ==
    /\ pc = "idle"
    /\ inbuf = <<>>
    /\ \E g \in GetConnectionOutcomes(Here, ERROR_ON_NEWER_PROTOCOL) :
        IF g.exc # "ok"
        THEN /\ connected' = g.connected
             /\ sock' = g.sock
             /\ protocol' = g.protocol
             /\ peer' = g.peer
             /\ inbuf' = InbufAfter(g.sock)
             /\ last' = [NoLast EXCEPT !.op = "client_connect", !.outcome = g.exc,
                                       !.path = g.path, !.hs = g.hs]
             /\ UNCHANGED <<auth_token, lastMsg, awaiting, srv, runVars>>
        ELSE LET msg == BuildMessage("ConnectMessage")
                 buff == EncodeRequest(msg, CONNECT_OP,
                                       EncodeBytes(User) \o EncodeBytes(Pass))
             IN  /\ lastMsg' = msg
                 /\ auth_token' = SocketTokenAfter(auth_token,
                                     GetMessageToken(auth_token, clientToken))
                 /\ protocol' = g.protocol
                 /\ peer' = g.peer
                 /\ \E w \in WriteOutcomes([connected |-> g.connected,
                                            sock |-> g.sock, peer |-> g.peer], buff) :
                     /\ connected' = w.connected
                     /\ sock' = w.sock
                     /\ inbuf' = InbufAfter(w.sock)
                     /\ IF w.exc = "ok"
                        THEN /\ awaiting' = TRUE
                             /\ srv' = srv
                             /\ StartRead(FieldWidth(Head(ConnectFields)),
                                    [NoFrame EXCEPT !.op = "client_connect",
                                                    !.todo = ConnectFields])
                        ELSE /\ last' = [NoLast EXCEPT !.op = "client_connect",
                                            !.outcome = w.exc, !.path = w.path,
                                            !.arg = buff, !.poll = w.poll]
                             /\ UNCHANGED <<awaiting, srv, runVars>>
    /\ UNCHANGED <<host, port, session_id, db_opened, in_transaction, cliVars,
                   est, dead>>

\* ------------------------------------------------------ messages: prepare
\* The command types of QUERY_TYPES.
QUERY_SYNC == "QUERY_SYNC"
QUERY_ASYNC == "QUERY_ASYNC"
QUERY_CMD == "QUERY_CMD"
QUERY_SCRIPT == "QUERY_SCRIPT"
QUERY_GREMLIN == "QUERY_GREMLIN"
QUERY_TYPES == {QUERY_SYNC, QUERY_ASYNC, QUERY_CMD, QUERY_SCRIPT, QUERY_GREMLIN}

\* CommandMessage._limit = 20
DefaultLimit == 20

\* Query texts, as code points: "x", "x limit 1", "x LiMiT 1", "xlimit 1",
\* " limit".
Queries ==
    {<<120>>,
     <<120, 32, 108, 105, 109, 105, 116, 32, 49>>,
     <<120, 32, 76, 105, 77, 105, 84, 32, 49>>,
     <<120, 108, 105, 109, 105, 116, 32, 49>>,
     <<32, 108, 105, 109, 105, 116>>}

\* str.upper()
Upper(q) == [i \in 1..Len(q) |-> IF q[i] \in 97..122 THEN q[i] - 32 ELSE q[i]]

\* needle in hay
Contains(hay, needle) ==
    \E i \in 0..(Len(hay) - Len(needle)) :
        SubSeq(hay, i + 1, i + Len(needle)) = needle

\* ' LIMIT '
LimitKeyword == <<32, 76, 73, 77, 73, 84, 32>>

\* A slip: the query text is searched as it is written.
PayloadLimitAsWritten(ctype, query, limit) ==
    IF ~Contains(query, LimitKeyword) \/ ctype = QUERY_GREMLIN THEN limit ELSE -1

\* The limit field of the payload: a limit in the query text overrides the
\* limit parameter.
PayloadLimit(ctype, query, limit) ==
    IF ~Contains(Upper(query), LimitKeyword) \/ ctype = QUERY_GREMLIN
    THEN limit ELSE -1

\* The command types whose payload carries a limit and a fetch plan.
LimitTypes == {QUERY_ASYNC, QUERY_SYNC, QUERY_GREMLIN}

\* The command types sent in synchronous mode.
SyncTypes == {QUERY_CMD, QUERY_SYNC, QUERY_SCRIPT, QUERY_GREMLIN}

\* A slip: the callback is not asked for.
CallbackMissingNever(ctype, cb) == FALSE

\* Asynchronous mode and self._callback is None.
CallbackMissing(ctype, cb) == ctype \notin SyncTypes /\ ~cb

\* The message classes of the database-scoped operations.
DbMessages ==
    {"CommandMessage", "RecordCreateMessage", "RecordLoadMessage",
     "RecordUpdateMessage", "RecordDeleteMessage", "DataClusterAddMessage",
     "DataClusterCountMessage", "DataClusterDataRangeMessage",
     "DataClusterDropMessage"}

\* The parameters prepare is called with.  ctype, query, limit and cb are
\* those of a command (limit None and cb FALSE when the tuple ends before
\* them); arg says what stands at the checked position of the other
\* messages: nothing, a valid value, an invalid string, an invalid value that
\* is no string (for Cluster Count: a list, a tuple, a value that is neither).
Params(class, ctype, query, limit, cb, arg) ==
    [class |-> class, ctype |-> ctype, query |-> query, limit |-> limit,
     cb |-> cb, arg |-> arg]

CommandParams ==
    {Params("CommandMessage", t, q, l, FALSE, "valid") :
        t \in {QUERY_SYNC, QUERY_ASYNC}, q \in Queries, l \in {None, Some(5)}}
    \cup {Params("CommandMessage", QUERY_ASYNC, q, Some(5), TRUE, "valid") :
        q \in Queries}
    \cup {Params("CommandMessage", t, <<120, 32, 108, 105, 109, 105, 116, 32, 49>>,
                 Some(5), FALSE, "valid") :
        t \in {QUERY_CMD, QUERY_SCRIPT, QUERY_GREMLIN, "bogus"}}

OtherParams ==
    {Params(c, QUERY_SYNC, <<>>, None, FALSE, a) :
        c \in {"RecordCreateMessage", "RecordUpdateMessage", "DataClusterAddMessage"},
        a \in {"absent", "valid", "invalid_string", "invalid_other"}}
    \cup {Params("DataClusterCountMessage", QUERY_SYNC, <<>>, None, FALSE, a) :
        a \in {"absent", "list", "tuple", "other"}}
    \cup {Params(c, QUERY_SYNC, <<>>, None, FALSE, "valid") :
        c \in {"RecordLoadMessage", "RecordDeleteMessage",
               "DataClusterDataRangeMessage", "DataClusterDropMessage"}}

PrepareParams == CommandParams \cup OtherParams

PrepOut(exc, path, req, limit) ==
    [exc |-> exc, path |-> path, req |-> req, limit |-> limit]

\* CommandMessage.prepare, the body.
CommandPrepare(pr) ==
    IF pr.ctype \notin QUERY_TYPES
    THEN PrepOut(BadCallExc, "set_command_type", <<>>, None)
    ELSE IF CallbackMissing(pr.ctype, pr.cb)
    THEN PrepOut(BadCallExc, "no_callback", <<>>, None)
    ELSE PrepOut("ok", "prepared", <<"byte", "string">>,
                 IF pr.ctype \in LimitTypes
                 THEN Some(PayloadLimit(pr.ctype, pr.query,
                                        IF pr.limit = None THEN DefaultLimit
                                        ELSE pr.limit[1]))
                 ELSE None)

\* The fields prepare appends after the operation code.
RequestFields(class, arg) ==
    IF class = "RecordCreateMessage" THEN <<"short", "string", "byte", "boolean">>
    ELSE IF class = "RecordLoadMessage"
    THEN <<"short", "long", "string", "byte", "byte">>
    ELSE IF class = "RecordUpdateMessage"
    THEN <<"short", "long", "boolean", "string", "int", "byte", "boolean">>
    ELSE IF class = "RecordDeleteMessage" THEN <<"short", "long", "int", "boolean">>
    ELSE IF class = "DataClusterAddMessage" THEN <<"string", "short">>
    ELSE IF class = "DataClusterCountMessage"
    THEN IF arg \in {"list", "tuple"} THEN <<"short", "short", "boolean">>
         ELSE <<"short", "boolean">>
    ELSE <<"short">>

\* set_record_type / set_cluster_type: a value of the type set is stored; for
\* any other the message of the usage error is built by concatenation, which
\* raises TypeError when the value is no string.
SetTypeOutcome(arg) ==
    IF arg \in {"absent", "valid"} THEN "ok"
    ELSE IF arg = "invalid_string" THEN BadCallExc
    ELSE TypeExc

\* prepare of the other messages, the body.
OtherPrepare(pr) ==
    LET done == PrepOut("ok", "prepared", RequestFields(pr.class, pr.arg), None)
    IN  IF pr.class \in {"RecordCreateMessage", "RecordUpdateMessage"}
        THEN \* except IndexError only
             IF SetTypeOutcome(pr.arg) = "ok" THEN done
             ELSE PrepOut(SetTypeOutcome(pr.arg), "set_record_type", <<>>, None)
        ELSE IF pr.class = "DataClusterAddMessage"
        THEN \* except (IndexError, TypeError): pass
             IF SetTypeOutcome(pr.arg) \in {"ok", TypeExc} THEN done
             ELSE PrepOut(SetTypeOutcome(pr.arg), "set_cluster_type", <<>>, None)
        ELSE IF pr.class = "DataClusterCountMessage" /\ pr.arg = "other"
        THEN PrepOut(BadCallExc, "cluster_ids", <<>>, None)
        ELSE done

\* A slip: every prepare carries the decorator.
GuardedAll(class) == TRUE

\* The prepare methods decorated with need_db_opened.
Guarded(class) ==
    class \notin {"DataClusterDataRangeMessage", "ConnectMessage",
                  "ShutdownMessage"}

\* prepare as called: the decorators need_connected and need_db_opened, then
\* the body.
PrepareOutcome(pr, conn, db) ==
    IF Guarded(pr.class) /\ ~conn
    THEN PrepOut(ConnExc, "need_connected", <<>>, None)
    ELSE IF Guarded(pr.class) /\ db = "None"
    THEN PrepOut(DbExc, "need_db_opened", <<>>, None)
    ELSE IF pr.class = "CommandMessage" THEN CommandPrepare(pr)
    ELSE OtherPrepare(pr)

\* get_message(class).prepare(params) on a connected client.
Prepare(pr) ==
    /\ pc = "idle"
    /\ connected
    /\ inbuf = <<>>
    /\ LET o == PrepareOutcome(pr, connected, db_opened)
       IN  /\ auth_token' = SocketTokenAfter(auth_token,
                               GetMessageToken(auth_token, clientToken))
           /\ last' = [NoLast EXCEPT !.op = "prepare", !.msg = pr.class,
                                     !.params = pr, !.outcome = o.exc,
                                     !.path = o.path, !.req = o.req,
                                     !.limit = o.limit, !.pre = ConnState,
                                     !.built = BuildMessage(pr.class)]
    /\ UNCHANGED <<sockVars, session_id, db_opened, in_transaction, cliVars,
                   envVars, runVars, lastMsg, est, srv, dead>>

\* A cluster of the server: OrientCluster(name, id).
Cluster(name, id) == [name |-> name, id |-> id]

\* The cluster lists a server delivers: [default: 0, v: 1], [V: 1],
\* [default: 0, e: 2].
ClusterLists ==
    {<<Cluster(<<100, 101, 102, 97, 117, 108, 116>>, 0), Cluster(<<118>>, 1)>>,
     <<Cluster(<<86>>, 1)>>,
     <<Cluster(<<100, 101, 102, 97, 117, 108, 116>>, 0), Cluster(<<101>>, 2)>>}

\* dict(pairs): a later pair replaces an earlier one of the same key.
RECURSIVE Dict(_, _)
Dict(d, pairs) ==
    IF pairs = <<>> THEN d
    ELSE Dict(Put(d, Head(pairs).k, Head(pairs).v), Tail(pairs))

\* A slip: the new clusters are added to the map there is.
ClusterMapKeeping(old, list) ==
    Dict(IF old = None THEN <<>> ELSE old[1],
         [i \in 1..Len(list) |-> Entry(list[i].name, list[i].id)])

\* _reload_clusters: the name-to-id map of the cluster list; the map there
\* was is dropped.
ClusterMap(old, list) ==
    Dict(<<>>, [i \in 1..Len(list) |-> Entry(list[i].name, list[i].id)])

\* _reload_clusters: the id-to-name map of the cluster list.
ClusterReverseMap(list) ==
    Dict(<<>>, [i \in 1..Len(list) |-> Entry(list[i].id, list[i].name)])

\* self.clusters = clusters; self._reload_clusters()
ReloadClusters(list) ==
    /\ clusters' = list
    /\ cluster_map' = Some(ClusterMap(cluster_map, list))
    /\ cluster_reverse_map' = Some(ClusterReverseMap(list))

\* ------------------------------------------------- utils: record ids
\* A record id as a caller may give it: a str, an int, bytes or an
\* OrientRecordLink around the string it was made of.
BytesVal(s) == [t |-> "bytes", s |-> s, m |-> <<>>]
LinkVal(s) == [t |-> "link", s |-> s, m |-> <<>>]

\* The isinstance chain both parsers start with: str as it is, str(int),
\* bytes.decode("utf-8"), OrientRecordLink.get().
AsString(v) == IF v.t = "int" THEN Str(v.s[1]) ELSE v.s

\* How often the byte c stands in s.
Count(s, c) == Cardinality({i \in 1..Len(s) : s[i] = c})

\* What a parser gives back: a str, or the exception that leaves it.
Parsed(exc, s) == [exc |-> exc, v |-> StrVal(s)]

\* A slip: the leading '#' is kept.
parse_cluster_id_keeping(cluster_id) ==
    LET s == AsString(cluster_id)
        c == SubSeq(s, 1, Find(s, 58) - 1)
    IN  IF Count(s, 58) # 1 THEN Parsed("ok", s)
        ELSE IF c = <<>> THEN Parsed(IndexExc, <<>>)
        ELSE Parsed("ok", c)

\* utils.parse_cluster_id: split(':') into exactly two parts, or the
\* ValueError of the unpacking is caught and the string comes back whole;
\* _cluster_id[0] of an empty first part raises IndexError, which no
\* except clause names.
parse_cluster_id(cluster_id) ==
    LET s == AsString(cluster_id)
        c == SubSeq(s, 1, Find(s, 58) - 1)
    IN  IF Count(s, 58) # 1 THEN Parsed("ok", s)
        ELSE IF c = <<>> THEN Parsed(IndexExc, <<>>)
        ELSE Parsed("ok", IF Head(c) = 35 THEN Tail(c) ELSE c)

\* utils.parse_cluster_position
parse_cluster_position(_cluster_position) ==
    LET s == AsString(_cluster_position)
    IN  IF Count(s, 58) # 1 THEN Parsed("ok", s)
        ELSE Parsed("ok", SubSeq(s, Find(s, 58) + 1, Len(s)))

\* int(s) of a str accepts a sign and decimal digits (no blank and no
\* underscore stands in the ids followed here).
IsInt(s) ==
    LET d == IF s # <<>> /\ Head(s) \in {43, 45} THEN Tail(s) ELSE s
    IN  d # <<>> /\ \A i \in 1..Len(d) : d[i] \in 48..57

\* What prepare makes of a record id: the exception that leaves it and
\* the request fields appended by then.
LoadOut(exc, path, fields) == [exc |-> exc, path |-> path, fields |-> fields]

\* RecordLoadMessage.prepare, the body after the parameters are taken: the
\* two parsers inside try / except ValueError, then int(_cluster) and
\* int(_position) in the two first _append calls, outside of it.
LoadPrepare(record_id) ==
    LET c == parse_cluster_id(record_id)
        p == parse_cluster_position(record_id)
    IN  IF c.exc = ValueExc \/ p.exc = ValueExc
        THEN LoadOut(BadCallExc, "not_valid_rid", 0)
        ELSE IF c.exc # "ok" THEN LoadOut(c.exc, "parse_cluster_id", 0)
        ELSE IF ~IsInt(c.v.s) THEN LoadOut(ValueExc, "int_cluster", 0)
        ELSE IF ~IsInt(p.v.s) THEN LoadOut(ValueExc, "int_position", 1)
        ELSE LoadOut("ok", "prepared", 5)

\* The record ids Record Load is prepared with: '#9:4', '9:4', '', 'abc',
\* '#5', '5:abc', ':5'.
LoadIds ==
    {<<35, 57, 58, 52>>, <<57, 58, 52>>, <<>>, <<97, 98, 99>>, <<35, 53>>,
     <<53, 58, 97, 98, 99>>, <<58, 53>>}

\* get_message("RecordLoadMessage").prepare((record_id,)) on a connected
\* client: need_db_opened, then the body; nothing is written.
PrepareLoad(record_id) ==
    /\ pc = "idle"
    /\ connected
    /\ inbuf = <<>>
    /\ auth_token' = SocketTokenAfter(auth_token,
                        GetMessageToken(auth_token, clientToken))
    /\ LET o == LoadPrepare(StrVal(record_id))
       IN  IF db_opened = "None"
           THEN last' = [NoLast EXCEPT !.op = "prepare_load",
                                      !.msg = "RecordLoadMessage",
                                      !.arg = record_id, !.outcome = DbExc,
                                      !.path = "need_db_opened",
                                      !.pre = ConnState]
           ELSE last' = [NoLast EXCEPT !.op = "prepare_load",
                                      !.msg = "RecordLoadMessage",
                                      !.arg = record_id, !.outcome = o.exc,
                                      !.path = o.path, !.n = o.fields,
                                      !.pre = ConnState]
    /\ UNCHANGED <<sockVars, session_id, db_opened, in_transaction, cliVars,
                   envVars, runVars, lastMsg, est, srv, dead>>

\* ------------------------------------- prepare, the positional parameters
\* A value that is neither a string, a number nor a map: a constant, a
\* class, None, True, a callable.
TokVal(name) == [t |-> name, s |-> <<>>, m |-> <<>>]
\* A list of integers.
ListVal(l) == [t |-> "list", s |-> l, m |-> <<>>]

\* An attribute of a message: the default __init__ gives it, and a valid
\* value a caller passes for it.
Slot(attr, default, given) == [attr |-> attr, default |-> default, given |-> given]

\* The attributes of a message class: first those the try block of prepare
\* fills from params[0], params[1], ... in this order, then those no
\* position reaches.  '*:0' is 42, 58, 48; 'd' is 100.
Slots(class) ==
    IF class = "CommandMessage"
    THEN <<Slot("_command_type", TokVal(QUERY_SYNC), TokVal(QUERY_SYNC)),
           Slot("_query", StrVal(<<>>), StrVal(<<120>>)),
           Slot("_limit", IntVal(DefaultLimit), IntVal(5)),
           Slot("_fetch_plan", StrVal(<<42, 58, 48>>), StrVal(<<42, 58, 49>>)),
           Slot("_callback", TokVal("None"), TokVal("callable"))>>
    ELSE IF class = "RecordCreateMessage"
    THEN <<Slot("_cluster_id", StrVal(<<48>>), StrVal(<<57>>)),
           Slot("_record_content", TokVal("OrientRecord"), MapVal(FieldMap)),
           Slot("_record_type", StrVal(<<100>>), StrVal(<<98>>)),
           Slot("_mode_async", IntVal(0), IntVal(1))>>
    ELSE IF class = "RecordLoadMessage"
    THEN <<Slot("_record_id", StrVal(<<>>), StrVal(<<35, 57, 58, 52>>)),
           Slot("_fetch_plan", StrVal(<<42, 58, 48>>), StrVal(<<42, 58, 49>>)),
           Slot("_callback", TokVal("None"), TokVal("callable"))>>
    ELSE IF class = "RecordUpdateMessage"
    THEN <<Slot("_cluster_id", StrVal(<<48>>), StrVal(<<57>>)),
           Slot("_cluster_position", IntVal(0), StrVal(<<52>>)),
           Slot("_record_content", StrVal(<<>>), MapVal(FieldMap)),
           Slot("_record_version", IntVal(-1), IntVal(2)),
           Slot("_record_type", StrVal(<<100>>), StrVal(<<98>>)),
           Slot("_record_version_policy", IntVal(-1), IntVal(-2)),
           Slot("_mode_async", IntVal(0), IntVal(1)),
           Slot("_update_content", TokVal("True"), TokVal("False"))>>
    ELSE IF class = "RecordDeleteMessage"
    THEN <<Slot("_cluster_id", StrVal(<<48>>), StrVal(<<57>>)),
           Slot("_cluster_position", StrVal(<<48>>), StrVal(<<52>>)),
           Slot("_record_version", IntVal(-1), IntVal(2)),
           Slot("_mode_async", IntVal(0), IntVal(1)),
           Slot("_record_type", StrVal(<<100>>), StrVal(<<98>>))>>
    ELSE IF class = "DataClusterAddMessage"
    THEN <<Slot("_cluster_name", StrVal(<<>>), StrVal(<<118>>)),
           Slot("_cluster_type", TokVal("CLUSTER_TYPE_PHYSICAL"),
                TokVal("CLUSTER_TYPE_MEMORY")),
           Slot("_cluster_location", StrVal(<<100, 101, 102, 97, 117, 108, 116>>),
                StrVal(<<108>>)),
           Slot("_data_segment_name", StrVal(<<100, 101, 102, 97, 117, 108, 116>>),
                StrVal(<<115>>)),
           Slot("_new_cluster_id", IntVal(-1), IntVal(3))>>
    ELSE IF class = "DataClusterCountMessage"
    THEN <<Slot("_cluster_ids", ListVal(<<>>), ListVal(<<1>>)),
           Slot("_count_tombstones", IntVal(0), IntVal(1))>>
    ELSE IF class \in {"DataClusterDataRangeMessage", "DataClusterDropMessage"}
    THEN <<Slot("_cluster_id", IntVal(0), IntVal(1)),
           Slot("_count_tombstones", IntVal(0), IntVal(1))>>
    ELSE IF class = "ConnectMessage"
    THEN <<Slot("_user", StrVal(<<>>), StrVal(User)),
           Slot("_pass", StrVal(<<>>), StrVal(Pass)),
           Slot("_client_id", StrVal(<<>>), StrVal(<<99>>))>>
    ELSE <<Slot("_user", StrVal(<<>>), StrVal(User)),
           Slot("_pass", StrVal(<<>>), StrVal(Pass))>>

\* The classes whose prepare takes its parameters by position inside a try
\* block that passes over IndexError.
PositionalClasses ==
    {"CommandMessage", "RecordCreateMessage", "RecordLoadMessage",
     "RecordUpdateMessage", "RecordDeleteMessage", "DataClusterAddMessage",
     "DataClusterCountMessage"}

\* Every concrete message class of the family.
MessageClasses ==
    PositionalClasses \cup {"ConnectMessage", "ShutdownMessage",
                            "DataClusterDataRangeMessage",
                            "DataClusterDropMessage"}

\* How many of the attributes a position reaches; Cluster Data Range takes
\* its cluster id only from a params that is an int, which a tuple is not.
Positional(class) ==
    IF class = "RecordCreateMessage" THEN 3
    ELSE IF class \in {"RecordDeleteMessage", "DataClusterAddMessage"} THEN 4
    ELSE IF class = "DataClusterDataRangeMessage" THEN 0
    ELSE IF class = "DataClusterDropMessage" THEN 1
    ELSE Len(Slots(class))

\* The leading parameters a call cannot do without: Record Create's cluster
\* id and content, Record Load's record id, Cluster Drop's cluster id (its
\* params[0] stands outside any try block).
Required(class) ==
    IF class = "RecordCreateMessage" THEN 2
    ELSE IF class \in {"RecordLoadMessage", "DataClusterDropMessage"} THEN 1
    ELSE 0

\* The field __init__ appends: the operation code.
OpField(name) == [type |-> "byte", attr |-> "op", v |-> TokVal(name)]

\* The fields a message declares in __init__, before prepare runs.
InitFields(class) ==
    IF class = "ConnectMessage" THEN <<OpField("CONNECT_OP")>>
    ELSE IF class = "ShutdownMessage" THEN <<>>
    ELSE IF class = "CommandMessage" THEN <<OpField("COMMAND_OP")>>
    ELSE IF class = "RecordCreateMessage" THEN <<OpField("RECORD_CREATE_OP")>>
    ELSE IF class = "RecordLoadMessage" THEN <<OpField("RECORD_LOAD_OP")>>
    ELSE IF class = "RecordUpdateMessage" THEN <<OpField("RECORD_UPDATE_OP")>>
    ELSE IF class = "RecordDeleteMessage" THEN <<OpField("RECORD_DELETE_OP")>>
    ELSE IF class = "DataClusterAddMessage" THEN <<OpField("DATA_CLUSTER_ADD_OP")>>
    ELSE IF class = "DataClusterCountMessage"
    THEN <<OpField("DATA_CLUSTER_COUNT_OP")>>
    ELSE IF class = "DataClusterDataRangeMessage"
    THEN <<OpField("DATA_CLUSTER_DATA_RANGE_OP")>>
    ELSE <<OpField("DATA_CLUSTER_DROP_OP")>>

\* A slip: the assignment before which params[k] raised is made as well.
AfterTryOneMore(class, k) ==
    [i \in 1..Len(Slots(class)) |->
        Entry(Slots(class)[i].attr,
              IF i <= k + 1 /\ i <= Positional(class) THEN Slots(class)[i].given
              ELSE Slots(class)[i].default)]

\* The attributes after the try block of prepare called with the first k
\* positional parameters: params[k] raises IndexError, which is passed over,
\* and what was not assigned keeps the default of __init__.
AfterTry(class, k) ==
    [i \in 1..Len(Slots(class)) |->
        Entry(Slots(class)[i].attr,
              IF i <= k /\ i <= Positional(class) THEN Slots(class)[i].given
              ELSE Slots(class)[i].default)]

\* The fields prepare appends after the try block, each with the attribute
\* it is taken from; "" stands for a value prepare computes (the parsed
\* cluster id and position, the encoded record, the command's mode byte and
\* payload, the count of cluster ids and the ids).
Appended(class, k) ==
    IF class = "CommandMessage" THEN <<<<"byte", "">>, <<"string", "">>>>
    ELSE IF class = "RecordCreateMessage"
    THEN <<<<"short", "">>, <<"string", "">>, <<"byte", "_record_type">>,
           <<"boolean", "_mode_async">>>>
    ELSE IF class = "RecordLoadMessage"
    THEN <<<<"short", "">>, <<"long", "">>, <<"string", "_fetch_plan">>,
           <<"byte", "">>, <<"byte", "">>>>
    ELSE IF class = "RecordUpdateMessage"
    THEN <<<<"short", "">>, <<"long", "">>, <<"boolean", "_update_content">>,
           <<"string", "">>, <<"int", "_record_version_policy">>,
           <<"byte", "_record_type">>, <<"boolean", "_mode_async">>>>
    ELSE IF class = "RecordDeleteMessage"
    THEN <<<<"short", "">>, <<"long", "">>, <<"int", "_record_version">>,
           <<"boolean", "_mode_async">>>>
    ELSE IF class = "DataClusterAddMessage"
    THEN <<<<"string", "_cluster_name">>, <<"short", "_new_cluster_id">>>>
    ELSE IF class = "DataClusterCountMessage"
    THEN <<<<"short", "">>>>
         \o (IF k >= 1 THEN <<<<"short", "">>>> ELSE <<>>)
         \o <<<<"boolean", "_count_tombstones">>>>
    ELSE IF class \in {"DataClusterDataRangeMessage", "DataClusterDropMessage"}
    THEN <<<<"short", "_cluster_id">>>>
    ELSE IF class = "ConnectMessage"
    THEN <<<<"string", "_user">>, <<"string", "_pass">>>>
    ELSE <<<<"string", "">>>>

\* The value of an attribute.
Attr(attrs, attr) ==
    (CHOOSE e \in {attrs[i] : i \in 1..Len(attrs)} : e.k = attr).v

\* The request fields of prepare with their values.
AppendedFields(class, k, attrs) ==
    [i \in 1..Len(Appended(class, k)) |->
        [type |-> Appended(class, k)[i][1],
         attr |-> Appended(class, k)[i][2],
         v |-> IF Appended(class, k)[i][2] = "" THEN TokVal("computed")
               ELSE Attr(attrs, Appended(class, k)[i][2])]]

\* get_message(class).prepare(params) on a connected client, params being
\* the first k positional parameters, each valid: the fields of __init__ and
\* then those of prepare are the declared field sequence of the request.
PrepareFirst(class, k) ==
    /\ pc = "idle"
    /\ connected
    /\ inbuf = <<>>
    /\ auth_token' = SocketTokenAfter(auth_token,
                        GetMessageToken(auth_token, clientToken))
    /\ IF Guarded(class) /\ db_opened = "None"
       THEN last' = [NoLast EXCEPT !.op = "prepare_first", !.msg = class,
                                  !.n = k, !.outcome = DbExc,
                                  !.path = "need_db_opened"]
       ELSE last' = [NoLast EXCEPT !.op = "prepare_first", !.msg = class,
                                  !.n = k, !.path = "prepared",
                                  !.params = AfterTry(class, k),
                                  !.req = InitFields(class)
                                      \o AppendedFields(class, k,
                                                        AfterTry(class, k))]
    /\ UNCHANGED <<sockVars, session_id, db_opened, in_transaction, cliVars,
                   envVars, runVars, lastMsg, est, srv, dead>>

\* Open Database, by its effect on the connection and the client: the name
\* of the opened database is stored, the cluster list of the response is
\* kept and the caches are made from it.  It runs on a session a Connect has
\* established.
DbOpen ==
    /\ pc = "idle"
    /\ connected
    /\ sock = "open"
    /\ est.on
    /\ db_opened = "None"
    /\ db_opened' = "demo"
    /\ \E list \in ClusterLists :
         /\ ReloadClusters(list)
         /\ last' = [NoLast EXCEPT !.op = "db_open", !.arg = list]
    /\ UNCHANGED <<sockVars, session_id, auth_token, in_transaction,
                   clientToken, ERROR_ON_NEWER_PROTOCOL, envVars, runVars,
                   lastMsg, est, srv, dead>>

\* Reload Database, by its effect on the client: the cluster list of the
\* response replaces the one kept and the caches are made again.
DbReload ==
    /\ pc = "idle"
    /\ connected
    /\ sock = "open"
    /\ db_opened # "None"
    /\ \E list \in ClusterLists :
         /\ ReloadClusters(list)
         /\ last' = [NoLast EXCEPT !.op = "db_reload", !.arg = list]
    /\ UNCHANGED <<sockVars, sessVars, clientToken, ERROR_ON_NEWER_PROTOCOL,
                   envVars, runVars, lastMsg, est, srv, dead>>

\* str.lower()
lower(name) ==
    [i \in 1..Len(name) |-> IF name[i] \in 65..90 THEN name[i] + 32
                                                  ELSE name[i]]

\* cache[key] of a cache that may be None: the value, KeyError, TypeError.
Subscript(cache, key) ==
    IF cache = None THEN [exc |-> TypeExc, ret |-> None]
    ELSE IF key \in Keys(cache[1])
    THEN [exc |-> "ok", ret |-> Get(cache[1], key)]
    ELSE [exc |-> "KeyError", ret |-> None]

\* The names and positions a caller asks for.
LookupNames == {<<100, 101, 102, 97, 117, 108, 116>>,
                <<68, 69, 70, 65, 85, 76, 84>>, <<118>>, <<86>>, <<101>>,
                <<69>>}
LookupPositions == 0..2

\* OrientDB.get_class_position(cluster_name)
GetClassPosition(cluster_name) ==
    /\ pc = "idle"
    /\ LET r == Subscript(cluster_map, lower(cluster_name))
       IN  last' = [NoLast EXCEPT !.op = "get_class_position",
                                 !.arg = cluster_name, !.outcome = r.exc,
                                 !.ret = r.ret]
    /\ UNCHANGED <<sockVars, sessVars, cliVars, envVars, runVars, lastMsg,
                   est, srv, dead>>

\* OrientDB.get_class_name(position)
GetClassName(position) ==
    /\ pc = "idle"
    /\ LET r == Subscript(cluster_reverse_map, position)
       IN  last' = [NoLast EXCEPT !.op = "get_class_name",
                                 !.n = position, !.outcome = r.exc,
                                 !.ret = r.ret]
    /\ UNCHANGED <<sockVars, sessVars, cliVars, envVars, runVars, lastMsg,
                   est, srv, dead>>

\* A client-side transaction batch is opened or ended on an open database.
TxToggle ==
    /\ pc = "idle"
    /\ connected
    /\ db_opened # "None"
    /\ in_transaction' = ~in_transaction
    /\ last' = [NoLast EXCEPT !.op = "tx"]
    /\ UNCHANGED <<sockVars, session_id, auth_token, db_opened, cliVars,
                   envVars, runVars, lastMsg, est, srv, dead>>

\* ------------------------------------------------ prepare, Cluster Count
\* The lists of cluster ids a caller may hand over: up to MaxIds ids out of
\* 1 and 2, in any order, repeated or not.
IdLists == UNION {[1..n -> {1, 2}] : n \in 0..MaxIds}

\* The parameters of data_cluster_count: none, the ids, the ids and the
\* tombstone flag, or a first parameter that is no list.
CountParams ==
    {<<>>, <<IntVal(1)>>}
    \cup {<<ListVal(ids)>> : ids \in IdLists}
    \cup {<<ListVal(ids), IntVal(1)>> : ids \in IdLists}

\* A request field with the attribute it is taken from.
Field(type, attr, v) == [type |-> type, attr |-> attr, v |-> v]

\* A slip: the count is that of the ids __init__ left.
DeclaredCountInit(cluster_ids) == 0

\* len(self._cluster_ids)
DeclaredCount(cluster_ids) == Len(cluster_ids)

\* DataClusterCountMessage.prepare, the fields appended: the count, a
\* short for each id, the tombstone flag.
CountFields(cluster_ids, count_tombstones) ==
    <<Field("short", "", IntVal(DeclaredCount(cluster_ids)))>>
    \o [i \in 1..Len(cluster_ids) |->
            Field("short", "_cluster_ids", IntVal(cluster_ids[i]))]
    \o <<Field("boolean", "_count_tombstones", count_tombstones)>>

\* DataClusterCountMessage.prepare, the body: inside the try block
\* params[0] is stored when it is a list or tuple and is a usage error
\* otherwise; an IndexError leaves the defaults [] and 0.
CountPrepare(params) ==
    IF params # <<>> /\ params[1].t # "list"
    THEN PrepOut(BadCallExc, "cluster_ids", <<>>, None)
    ELSE PrepOut("ok", "prepared",
                 InitFields("DataClusterCountMessage")
                 \o CountFields(IF Len(params) >= 1 THEN params[1].s ELSE <<>>,
                                IF Len(params) >= 2 THEN params[2]
                                ELSE IntVal(0)),
                 None)

\* get_message("DataClusterCountMessage").prepare(params) on a connected
\* client: need_db_opened, then the body; nothing is written.
PrepareCount(params) ==
    /\ pc = "idle"
    /\ connected
    /\ inbuf = <<>>
    /\ auth_token' = SocketTokenAfter(auth_token,
                        GetMessageToken(auth_token, clientToken))
    /\ LET o == CountPrepare(params)
       IN  IF db_opened = "None"
           THEN last' = [NoLast EXCEPT !.op = "prepare_count",
                                      !.msg = "DataClusterCountMessage",
                                      !.params = params, !.outcome = DbExc,
                                      !.path = "need_db_opened"]
           ELSE last' = [NoLast EXCEPT !.op = "prepare_count",
                                      !.msg = "DataClusterCountMessage",
                                      !.params = params, !.outcome = o.exc,
                                      !.path = o.path, !.req = o.req]
    /\ UNCHANGED <<sockVars, session_id, db_opened, in_transaction, cliVars,
                   envVars, runVars, lastMsg, est, srv, dead>>

\* ------------------------------------------- messages: send, fetch_response
\* The operations whose exchange is followed: Execute Command in synchronous
\* and in asynchronous mode, Record Create, Record Update, Record Delete,
\* Record Load, Cluster Data Range.
CommandOps == {"command", "command_async"}
RecordOps == {"record_create", "record_update", "record_delete"}
LoadOps == {"record_load"}
ClusterOps == {"data_cluster_data_range"}
DbOps == CommandOps \cup RecordOps \cup LoadOps \cup ClusterOps

\* The message class of an operation.
ClassOf(op) ==
    IF op \in CommandOps THEN "CommandMessage"
    ELSE IF op = "record_create" THEN "RecordCreateMessage"
    ELSE IF op = "record_update" THEN "RecordUpdateMessage"
    ELSE IF op = "record_load" THEN "RecordLoadMessage"
    ELSE IF op = "data_cluster_data_range" THEN "DataClusterDataRangeMessage"
    ELSE "RecordDeleteMessage"

\* The operation codes (constants.py).
OpCode(op) ==
    IF op \in CommandOps THEN 41
    ELSE IF op = "record_create" THEN 31
    ELSE IF op = "record_update" THEN 32
    ELSE IF op = "record_load" THEN 30
    ELSE IF op = "data_cluster_data_range" THEN 13
    ELSE 33

\* The parameters the facade verb passes on in a valid call; query_async
\* carries its callback.
CallParams(op) ==
    Params(ClassOf(op),
           IF op = "command_async" THEN QUERY_ASYNC ELSE QUERY_SYNC,
           <<120>>, Some(5), op = "command_async", "valid")

\* The calls followed: the valid one, and query_async without a callback.
Calls(op) ==
    {CallParams(op)}
    \cup {Params(ClassOf(op), QUERY_ASYNC, <<120>>, Some(5), FALSE, "valid") :
            x \in IF op = "command_async" THEN {1} ELSE {}}

\* The record content a valid call of Record Create / Record Update hands
\* over, as prepare leaves it in _record_content: the OrientRecord passed
\* in, or the one built from the field map passed in.
Passed(op) ==
    IF op \in {"record_create", "record_update"}
    THEN {OrientRecord(FieldMap), Known}
    ELSE {NoRecord}

\* The record ids a valid call of Record Load asks for: '#9:4', '#9:5'.
Requested(op) ==
    IF op \in LoadOps THEN {<<35, 57, 58, 52>>, <<35, 57, 58, 53>>} ELSE {<<>>}

\* The arguments of the facade verb data_cluster_data_range(c): the
\* cluster id 0 or 3; the verb hands prepare the tuple of its arguments.
Arguments(op) == IF op \in ClusterOps THEN {<<0>>, <<3>>} ELSE {<<>>}

\* DataClusterDataRangeMessage.prepare: the cluster id is params when
\* params is an int, else the 0 of __init__.
DataRangeClusterId(params) == IF params.t = "int" THEN params.s[1] ELSE 0

\* The operation's fields on the wire, where they are followed: Cluster
\* Data Range's cluster number.
RequestBody(op, args) ==
    IF op \in ClusterOps THEN EncodeShort(DataRangeClusterId(ListVal(args)))
    ELSE <<>>

\* The fields fetch_response declares before it decodes the first time: the
\* status byte of the header, then the operation's primary fields.
ResponseHead(op) ==
    IF op \in CommandOps THEN <<"byte">>
    ELSE IF op = "record_create" THEN <<"byte", "short", "long", "int">>
    ELSE IF op = "record_update" THEN <<"byte", "int">>
    ELSE IF op = "record_load" THEN <<"byte", "byte">>
    ELSE IF op = "data_cluster_data_range" THEN <<"byte", "long", "long">>
    ELSE <<"byte", "boolean">>

\* A slip: the transaction is not looked at.
SuppressedNever(op, tx) == FALSE

\* self._orientSocket.in_transaction is True, in the fetch_response of a
\* command and of Record Create, Update and Delete; Record Load and Cluster
\* Data Range do not ask.
Suppressed(op, tx) == tx /\ op \notin LoadOps \cup ClusterOps

\* get_message(class).prepare(params).send() of a facade verb outside a
\* transaction: the request is written unless prepare raises.
Send(op) ==
    /\ pc = "idle"
    /\ connected
    /\ sock = "open"
    /\ inbuf = <<>>
    /\ ~in_transaction
    /\ \E pr \in Calls(op), rec \in Passed(op), rid \in Requested(op),
          args \in Arguments(op) :
       LET msg == BuildMessage(ClassOf(op))
           o == PrepareOutcome(pr, connected, db_opened)
           buff == EncodeRequest(msg, OpCode(op), RequestBody(op, args))
       IN  /\ auth_token' = SocketTokenAfter(auth_token,
                               GetMessageToken(auth_token, clientToken))
           /\ IF o.exc # "ok"
              THEN /\ last' = [NoLast EXCEPT !.op = op, !.outcome = o.exc,
                                            !.path = o.path, !.pre = ConnState,
                                            !.msg = ClassOf(op), !.params = pr]
                   /\ UNCHANGED <<connected, sock, inbuf, awaiting, runVars>>
              ELSE \E w \in WriteOutcomes(Here, buff) :
                     /\ connected' = w.connected
                     /\ sock' = w.sock
                     /\ inbuf' = InbufAfter(w.sock)
                     /\ IF w.exc = "ok"
                        THEN /\ awaiting' = TRUE
                             /\ pc' = "fetch"
                             /\ frame' = [NoFrame EXCEPT !.op = op,
                                                         !.record = rec,
                                                         !.record_id = rid,
                                                         !.args = args,
                                                         !.body = RequestBody(op, args)]
                             /\ last' = Running
                             /\ UNCHANGED <<rd, pollClock>>
                        ELSE /\ last' = [NoLast EXCEPT !.op = op,
                                            !.outcome = w.exc, !.path = w.path,
                                            !.arg = buff, !.poll = w.poll]
                             /\ UNCHANGED <<awaiting, runVars>>
    /\ UNCHANGED <<host, port, protocol, session_id, db_opened, in_transaction,
                   cliVars, peer, lastMsg, est, srv, dead>>

\* Within a transaction a record operation is prepared and kept for the
\* batch: nothing is written, and the server will send no answer of its own.
Attach(op) ==
    /\ pc = "idle"
    /\ connected
    /\ sock = "open"
    /\ inbuf = <<>>
    /\ in_transaction
    /\ op \in RecordOps
    /\ PrepareOutcome(CallParams(op), connected, db_opened).exc = "ok"
    /\ auth_token' = SocketTokenAfter(auth_token,
                        GetMessageToken(auth_token, clientToken))
    /\ pc' = "fetch"
    /\ \E rec \in Passed(op) : frame' = [NoFrame EXCEPT !.op = op,
                                                        !.record = rec]
    /\ last' = Running
    /\ UNCHANGED <<sockVars, session_id, db_opened, in_transaction, cliVars,
                   envVars, rd, pollClock, lastMsg, est, srv, dead>>

\* fetch_response, its entry: within a transaction the message itself is
\* returned; otherwise the header and the primary fields are declared and
\* the first of them is read.
FetchResponse ==
    /\ pc = "fetch"
    /\ IF Suppressed(frame.op, in_transaction)
       THEN Return(frame, [NoResult EXCEPT !.kind = "self"], NoRecord, "")
       ELSE /\ StartRead(FieldWidth(Head(ResponseHead(frame.op))),
                         [frame EXCEPT !.todo = ResponseHead(frame.op),
                                       !.stage = IF frame.op \in CommandOps
                                                 THEN "header" ELSE "primary"])
            /\ GoOn
    /\ UNCHANGED <<sockVars, db_opened, in_transaction, cliVars, peer, inbuf,
                   dead>>

\* ------------------------------------------------------------- the peer
\* The Connect response: status byte, then content (empty), commandNr,
\* session id and token.
ConnectResponse(sid, tok) ==
    <<0>> \o EncodeBytes(<<>>) \o <<0>> \o EncodeInt(sid) \o EncodeBytes(tok)

\* The server answers the Connect request while the client waits for the
\* answer, in full or up to where it dies.
PeerRespond ==
    /\ sock = "open"
    /\ peer = "alive"
    /\ frame.op = "client_connect"
    /\ awaiting
    /\ \E sid \in SessionIds, tok \in Tokens :
        LET resp == ConnectResponse(sid, tok)
        IN  \E m \in (1..MaxCut) \cup {Len(resp)} :
              /\ inbuf' = inbuf \o SubSeq(resp, 1, m)
              /\ peer' = IF m < Len(resp) THEN "closed" ELSE "alive"
              /\ srv' = [NoSrv EXCEPT !.on = TRUE, !.sid = sid, !.token = tok,
                                      !.kind = "connect", !.len = Len(resp),
                                      !.full = (m = Len(resp))]
    /\ awaiting' = FALSE
    /\ UNCHANGED <<sockVars, sessVars, cliVars, runVars, last, lastMsg,
                   est, dead>>

\* A record as the server sends it: type 'd', version i, a content of one
\* byte that tells the records apart.
RecordBytes(i) == <<100>> \o EncodeInt(i) \o EncodeBytes(<<64 + i>>)

\* The record the client is to make of RecordBytes(i).
SentRecord(i) == [kind |-> "record", version |-> i, content |-> <<64 + i>>]

\* Records i, i + 1, ... n on the wire.
RECURSIVE RecordsFrom(_, _)
RecordsFrom(i, n) ==
    IF i > n THEN <<>> ELSE RecordBytes(i) \o RecordsFrom(i + 1, n)

\* The answer to a synchronous command: status, the result-type tag, the
\* content the tag announces (nothing, one record, a serialized value, a
\* length and as many records), then the byte 0 after which no record follows.
SyncResponse(tag, n) ==
    <<0, tag>>
    \o (IF tag = TagN THEN <<>>
        ELSE IF tag = TagR \/ tag = TagW THEN RecordBytes(1)
        ELSE IF tag = TagA THEN EncodeBytes(<<66>>)
        ELSE EncodeInt(n) \o RecordsFrom(1, n))
    \o <<0>>

\* The record streams of an asynchronous answer: each record is announced
\* by 1 (result set) or 2 (prefetched).
Streams == UNION {[1..n -> {1, 2}] : n \in 0..MaxStream}

RECURSIVE StreamFrom(_, _)
StreamFrom(stream, i) ==
    IF i > Len(stream) THEN <<>>
    ELSE <<stream[i]>> \o RecordBytes(i) \o StreamFrom(stream, i + 1)

\* The answer to an asynchronous command: status, the announced records, 0.
AsyncResponse(stream) == <<0>> \o StreamFrom(stream, 1) \o <<0>>

\* One collection change on the wire.
ChangeBytes ==
    EncodeLong(1) \o EncodeLong(2) \o EncodeLong(3) \o EncodeLong(4) \o EncodeInt(5)

RECURSIVE ChangesFrom(_, _)
ChangesFrom(i, n) == IF i > n THEN <<>> ELSE ChangeBytes \o ChangesFrom(i + 1, n)

\* The collection-change trailers a server may append: none at all, a count
\* and as many changes, or a count of one and a change that breaks off after
\* its second field.
Trailers ==
    {[count |-> -1, cut |-> FALSE]}
    \cup {[count |-> c, cut |-> FALSE] : c \in 0..MaxChanges}
    \cup {[count |-> 1, cut |-> TRUE]}

TrailerBytes(t) ==
    IF t.count < 0 THEN <<>>
    ELSE IF t.cut THEN EncodeInt(1) \o EncodeLong(1) \o EncodeLong(2)
    ELSE EncodeInt(t.count) \o ChangesFrom(1, t.count)

\* Record versions the server may return.
Versions == {3}

\* The positions the server gives a created record in cluster 9.
Positions(op) == IF op = "record_create" THEN {4, 12} ELSE {4}

\* The answers to Record Create (cluster id, position, version), Record
\* Update (version) and Record Delete (payload status), after the status.
RecordResponse(op, position, version, t) ==
    IF op = "record_create"
    THEN <<0>> \o EncodeShort(9) \o EncodeLong(position) \o EncodeInt(version)
              \o TrailerBytes(t)
    ELSE IF op = "record_update"
    THEN <<0>> \o EncodeInt(version) \o TrailerBytes(t)
    ELSE <<0, 1>>

\* The documents a loaded record may carry: 'c@f:a', the same followed by a
\* space, and 'f:b' of no class.
LoadContents ==
    {<<99, 64, 102, 58, 97>>, <<99, 64, 102, 58, 97, 32>>, <<102, 58, 98>>}

\* The answer to Record Load after the status: the presence byte 0 and no
\* more, or the presence byte, record type 'd', version, content, the
\* prefetched records and the byte 0 that ends them.
LoadResponse(present, version, content, stream) ==
    IF present = 0 THEN <<0, 0>>
    ELSE <<0, present, 100>> \o EncodeInt(version) \o EncodeBytes(content)
         \o StreamFrom(stream, 1) \o <<0>>

\* An answer to a synchronous command whose result-type tag is none of
\* 'n', 'r', 'w', 'a', 'l': status, the tag 'x', one more byte.
UnknownResponse == <<0, 120, 5>>

\* The answer to Cluster Data Range after the status: begin and end.
DataRangeResponse(begin, end) == <<0>> \o EncodeLong(begin) \o EncodeLong(end)

\* What the server may answer to the request in flight, with what it says
\* of itself.
Answers(op) ==
    IF op = "data_cluster_data_range"
    THEN {[NoSrv EXCEPT !.kind = op, !.range = r,
                        !.len = Len(DataRangeResponse(r[1], r[2])),
                        !.stream = DataRangeResponse(r[1], r[2])] :
            r \in {<<0, 7>>, <<2, 5>>}}
    ELSE IF op = "record_load"
    THEN {[NoSrv EXCEPT !.kind = op, !.n = 0,
                        !.len = Len(LoadResponse(0, 0, <<>>, <<>>)),
                        !.stream = LoadResponse(0, 0, <<>>, <<>>)]}
         \cup {[NoSrv EXCEPT !.kind = op, !.n = 1, !.version = v,
                             !.content = c, !.tags = st,
                             !.len = Len(LoadResponse(1, v, c, st)),
                             !.stream = LoadResponse(1, v, c, st)] :
                 v \in Versions, c \in LoadContents, st \in {<<>>, <<2>>}}
    ELSE IF op = "command"
    THEN {[NoSrv EXCEPT !.kind = op, !.tag = UnknownResponse[2],
                        !.len = Len(UnknownResponse),
                        !.stream = UnknownResponse]}
         \cup
         {[NoSrv EXCEPT !.kind = op, !.tag = tag, !.n = n,
                        !.len = Len(SyncResponse(tag, n)),
                        !.stream = SyncResponse(tag, n)] :
            tag \in {TagN, TagR, TagW, TagA}, n \in {0}}
         \cup {[NoSrv EXCEPT !.kind = op, !.tag = TagL, !.n = n,
                             !.len = Len(SyncResponse(TagL, n)),
                             !.stream = SyncResponse(TagL, n)] : n \in 0..MaxList}
    ELSE IF op = "command_async"
    THEN {[NoSrv EXCEPT !.kind = op, !.tags = st,
                        !.len = Len(AsyncResponse(st)),
                        !.stream = AsyncResponse(st)] : st \in Streams}
    ELSE IF op = "record_delete"
    THEN {[NoSrv EXCEPT !.kind = op, !.len = 2,
                        !.stream = RecordResponse(op, 4, 0,
                                       [count |-> -1, cut |-> FALSE])]}
    ELSE {[NoSrv EXCEPT !.kind = op, !.version = v, !.count = t.count,
                        !.cut = t.cut, !.cluster = 9, !.position = p,
                        !.len = Len(RecordResponse(op, p, v, t)),
                        !.stream = RecordResponse(op, p, v, t)] :
            v \in Versions, t \in Trailers, p \in Positions(op)}

\* The server answers the request of a database operation in full.
PeerAnswer ==
    /\ sock = "open"
    /\ peer = "alive"
    /\ frame.op \in DbOps
    /\ awaiting
    /\ \E a \in Answers(frame.op) :
        /\ inbuf' = inbuf \o a.stream
        /\ srv' = [a EXCEPT !.on = TRUE, !.stream = <<>>]
    /\ awaiting' = FALSE
    /\ UNCHANGED <<sockVars, sessVars, cliVars, peer, runVars, last, lastMsg,
                   est, dead>>

\* The peer sends a byte nobody asked for.
PeerSend(b) ==
    /\ sock = "open"
    /\ peer = "alive"
    /\ frame.op # "client_connect"
    /\ Len(inbuf) < MaxBuf
    /\ inbuf' = Append(inbuf, b)
    /\ UNCHANGED <<sockVars, sessVars, cliVars, peer, awaiting, runVars, obsVars>>

\* The peer closes its end: the stream ends after what is in flight.
PeerClose ==
    /\ sock = "open"
    /\ peer = "alive"
    /\ peer' = "closed"
    /\ UNCHANGED <<sockVars, sessVars, cliVars, inbuf, awaiting, runVars, obsVars>>

\* The peer goes silent without closing: nothing more arrives, no end of
\* stream and no error is ever reported.
PeerHalfOpen ==
    /\ sock = "open"
    /\ peer = "alive"
    /\ peer' = "halfopen"
    /\ UNCHANGED <<sockVars, sessVars, cliVars, inbuf, awaiting, runVars, obsVars>>

\* ------------------------------------------------------- specification
Next ==
    \/ Connect
    \/ GetConnection
    \/ Close
    \/ \E buff \in WriteBuffers : Write(buff)
    \/ \E n \in 0..MaxLen : ReadCall(n)
    \/ ReadPoll
    \/ ReadRecv
    \/ \E b \in BOOLEAN : SetClientToken(b)
    \/ \E command \in Commands : GetMessage(command)
    \/ ClientConnect
    \/ PeerRespond
    \/ \E b \in DataBytes : PeerSend(b)
    \/ PeerClose
    \/ PeerHalfOpen

Spec == Init /\ [][Next]_vars

\* The database operations, from a session a Connect has established.
DbInit ==
    /\ connected = TRUE
    /\ sock = "open"
    /\ host = "localhost"
    /\ port = 2424
    /\ protocol = SUPPORTED_PROTOCOL
    /\ session_id \in SessionIds
    /\ auth_token = <<>>
    /\ db_opened = "None"
    /\ in_transaction = FALSE
    /\ clientToken = "None"
    /\ clusters = <<>>
    /\ cluster_map = None
    /\ cluster_reverse_map = None
    /\ ERROR_ON_NEWER_PROTOCOL = TRUE
    /\ peer = "alive"
    /\ inbuf = <<>>
    /\ awaiting = FALSE
    /\ pc = "idle"
    /\ rd = NoRd
    /\ frame = NoFrame
    /\ pollClock = 0
    /\ last = NoLast
    /\ lastMsg = NoMsg
    /\ est = [on |-> TRUE, sid |-> session_id, token |-> <<>>]
    /\ srv = NoSrv
    /\ dead = FALSE

DbNext ==
    \/ DbOpen
    \/ DbReload
    \/ \E name \in LookupNames : GetClassPosition(name)
    \/ \E position \in LookupPositions : GetClassName(position)
    \/ TxToggle
    \/ \E pr \in PrepareParams : Prepare(pr)
    \/ \E class \in MessageClasses :
         \E k \in Required(class)..Positional(class) : PrepareFirst(class, k)
    \/ \E record_id \in LoadIds : PrepareLoad(record_id)
    \/ \E params \in CountParams : PrepareCount(params)
    \/ \E op \in DbOps : Send(op)
    \/ \E op \in RecordOps : Attach(op)
    \/ FetchResponse
    \/ PeerAnswer
    \/ ReadPoll
    \/ ReadRecv
    \/ PeerClose
    \/ PeerHalfOpen

DbSpec == DbInit /\ [][DbNext]_vars

\* ----------------------------------------------- the session and its close
\* A session as a Connect and the calls after it can leave it: with or
\* without a token issued, a database opened or not, a transaction begun
\* or not; close, the calls that change what close is to leave alone, and
\* get_message after them.
SessionInit ==
    /\ connected = TRUE
    /\ sock = "open"
    /\ host = "localhost"
    /\ port = 2424
    /\ protocol = SUPPORTED_PROTOCOL
    /\ session_id \in SessionIds
    /\ auth_token \in Tokens
    /\ db_opened \in {"None", "demo"}
    /\ in_transaction = FALSE
    /\ clientToken \in {"None", "True", "False"}
    /\ clusters = <<>>
    /\ cluster_map = None
    /\ cluster_reverse_map = None
    /\ ERROR_ON_NEWER_PROTOCOL = TRUE
    /\ peer = "alive"
    /\ inbuf = <<>>
    /\ awaiting = FALSE
    /\ pc = "idle"
    /\ rd = NoRd
    /\ frame = NoFrame
    /\ pollClock = 0
    /\ last = NoLast
    /\ lastMsg = NoMsg
    /\ est = [on |-> TRUE, sid |-> session_id, token |-> auth_token]
    /\ srv = NoSrv
    /\ dead = FALSE

SessionNext ==
    \/ Close
    \/ TxToggle
    \/ \E b \in BOOLEAN : SetClientToken(b)
    \/ \E command \in Commands : GetMessage(command)

SessionSpec == SessionInit /\ [][SessionNext]_vars

\* ------------------------------------------------ OrientRecord on its own
\* The entries a content map is made of: the reserved keys, a class key with
\* its nested map, a field map handed over whole, a plain field; the nested
\* maps hold a plain field or a reserved key.
\* '#9:4', 'c', "a'"
ContentEntries ==
    {Entry(KeyRid, StrVal(<<35, 57, 58, 52>>)),
     Entry(KeyVersion, IntVal(2)),
     Entry(KeyOClass, StrVal(<<99>>)),
     Entry(<<64, 99>>, MapVal(FieldMap)),
     Entry(<<64, 99>>, MapVal(<<Entry(KeyRid, StrVal(<<35, 57, 58, 52>>))>>)),
     Entry(KeyOStorage, MapVal(FieldMap)),
     Entry(KeyOStorage, MapVal(<<Entry(KeyVersion, IntVal(2))>>)),
     Entry(<<102>>, StrVal(<<97, 39>>))}

\* The content maps: up to MaxKeys entries with distinct keys, in the order
\* of insertion.
Contents ==
    {c \in UNION {[1..n -> ContentEntries] : n \in 0..MaxKeys} :
        \A i, j \in 1..Len(c) : i # j => c[i].k # c[j].k}

\* The keyword arguments update is called with.
Kwargs ==
    {<<>>,
     <<Entry(KeyVersion, IntVal(3))>>,
     <<Entry(KeyVersion, IntVal(3)),
       Entry(KeyRid, StrVal(<<35, 57, 58, 49, 50>>))>>,
     <<Entry(KeyOClass, StrVal(<<100>>))>>}

\* A caller holds a content map.
RecordInit ==
    /\ connected = FALSE
    /\ sock = "fresh"
    /\ host = "localhost"
    /\ port = 2424
    /\ protocol = -1
    /\ session_id = -1
    /\ auth_token = <<>>
    /\ db_opened = "None"
    /\ in_transaction = FALSE
    /\ clientToken = "None"
    /\ clusters = <<>>
    /\ cluster_map = None
    /\ cluster_reverse_map = None
    /\ ERROR_ON_NEWER_PROTOCOL = TRUE
    /\ peer = "none"
    /\ inbuf = <<>>
    /\ awaiting = FALSE
    /\ pc = "idle"
    /\ rd = NoRd
    /\ frame = NoFrame
    /\ pollClock = 0
    /\ \E content \in Contents :
         last = [NoLast EXCEPT !.op = "content", !.params = content]
    /\ lastMsg = NoMsg
    /\ est = NoEst
    /\ srv = NoSrv
    /\ dead = FALSE

\* OrientRecord(content)
NewRecord ==
    /\ last.op = "content"
    /\ last' = [last EXCEPT !.op = "OrientRecord",
                            !.record = OrientRecord(last.params)]
    /\ UNCHANGED <<sockVars, sessVars, cliVars, envVars, runVars, lastMsg,
                   est, srv, dead>>

\* record.update(**kwargs)
UpdateRecord(kwargs) ==
    /\ last.op \in {"OrientRecord", "update"}
    /\ last' = [last EXCEPT !.op = "update", !.passed = last.record,
                            !.record = update(last.record, kwargs),
                            !.arg = kwargs]
    /\ UNCHANGED <<sockVars, sessVars, cliVars, envVars, runVars, lastMsg,
                   est, srv, dead>>

RecordNext ==
    \/ NewRecord
    \/ \E kwargs \in Kwargs : UpdateRecord(kwargs)

RecordSpec == RecordInit /\ [][RecordNext]_vars

\* ------------------------------------------------ the parsers on their own
\* The texts a record id is made of: up to MaxRid of the characters '#',
\* '9', '4' and ':'.
RidTexts == UNION {[1..n -> {35, 57, 52, 58}] : n \in 0..MaxRid}

\* The values handed to the parsers: each text as str and as bytes, an
\* OrientRecordLink around each text its constructor can split in two, and
\* the ints 0, 9 and 94.
RidInputs ==
    {StrVal(s) : s \in RidTexts}
    \cup {BytesVal(s) : s \in RidTexts}
    \cup {LinkVal(s) : s \in {x \in RidTexts : Count(x, 58) = 1}}
    \cup {IntVal(n) : n \in {0, 9, 94}}

\* A caller holds a record id.
ParseInit ==
    /\ connected = FALSE
    /\ sock = "fresh"
    /\ host = "localhost"
    /\ port = 2424
    /\ protocol = -1
    /\ session_id = -1
    /\ auth_token = <<>>
    /\ db_opened = "None"
    /\ in_transaction = FALSE
    /\ clientToken = "None"
    /\ clusters = <<>>
    /\ cluster_map = None
    /\ cluster_reverse_map = None
    /\ ERROR_ON_NEWER_PROTOCOL = TRUE
    /\ peer = "none"
    /\ inbuf = <<>>
    /\ awaiting = FALSE
    /\ pc = "idle"
    /\ rd = NoRd
    /\ frame = NoFrame
    /\ pollClock = 0
    /\ \E v \in RidInputs :
         last = [NoLast EXCEPT !.op = "record_id", !.params = <<v>>]
    /\ lastMsg = NoMsg
    /\ est = NoEst
    /\ srv = NoSrv
    /\ dead = FALSE

\* parse_cluster_id(v) and parse_cluster_position(v) of the id held.
ParseRid ==
    /\ last.op = "record_id"
    /\ last' = [last EXCEPT !.op = "parsed",
                            !.req = <<parse_cluster_id(last.params[1]),
                                      parse_cluster_position(last.params[1])>>]
    /\ UNCHANGED <<sockVars, sessVars, cliVars, envVars, runVars, lastMsg,
                   est, srv, dead>>

ParseNext == ParseRid

ParseSpec == ParseInit /\ [][ParseNext]_vars

\* The thread inside read keeps running: it polls and receives again.
FairSpec == Spec /\ WF_vars(ReadPoll) /\ WF_vars(ReadRecv)

\* ---------------------------------------------------------------- claims
\* The paths of write and read that are fatal to the connection: a failed or
\* timed-out writability poll, a poll that raises, a poll-reported socket
\* error in read, a zero-byte receive.
FatalPaths == {"poll_failed", "poll_exception", "poll_in_error", "zero_byte"}

\* The ways a call ends that involve an operation on the socket.
SocketOpPaths ==
    {"closed_fd", "poll_failed", "poll_exception", "poll_in_error", "zero_byte",
     "recv_error", "sendall_error", "sent", "settimeout_error", "connect_error",
     "short_answer", "newer_protocol", "connected"}

\* The handshake of the last call received an answer announcing version v.
Negotiated(v) ==
    /\ last.hs.got
    /\ Len(last.hs.bytes) = 2
    /\ UnpackInt(last.hs.bytes) = v

\* C1: once a read has met a readable socket that yields zero bytes, the
\* connection is disconnected, that read has raised a connection error, and
\* every later write, read or facade operation fails with a connection error
\* without attempting a socket operation.
C1_ZeroByteDisconnects ==
    dead =>
        /\ ~connected
        /\ last.op \in {"read", "write", "get_message", "client_connect"} =>
              /\ last.outcome \in ConnectionErrors
              /\ last.path # "zero_byte" => last.path \notin SocketOpPaths

\* C2: after every fatal transport path of write and read the descriptor is
\* closed and connected is false.
C2_FatalPathClosesAndMarks ==
    last.path \in FatalPaths => sock = "closed" /\ ~connected

\* C3: write has exactly two outcomes: the poll reported the socket writable,
\* all of buff was handed to the socket and len(buff) is returned; or the
\* socket is closed, connected is false and an error is raised.
C3_WriteTwoOutcomes ==
    last.op = "write" =>
        \/ /\ last.outcome = "ok"
           /\ last.poll = "writable"
           /\ last.data = last.arg
           /\ last.ret = Some(Len(last.arg))
        \/ /\ last.outcome # "ok"
           /\ sock = "closed"
           /\ ~connected

\* C4: read(n) returns normally only with exactly n bytes, which are the
\* bytes received in their order of arrival over all partial receives; a
\* read that got fewer than n bytes and ends, ends by raising and hands no
\* data to its caller.
C4_ReadExact ==
    last.op = "read" =>
        IF last.outcome = "ok"
        THEN Len(last.data) = last.n /\ last.data = last.arg
        ELSE last.data = <<>>

\* A read of two bytes that arrived in two receives, and whose order shows.
C4_Witness ==
    /\ last.op = "read"
    /\ last.outcome = "ok"
    /\ last.n = 2
    /\ last.recvs = 2
    /\ last.data = <<65, 66>>

\* C5: a read on a half-open socket (nothing buffered, the poll reports
\* neither readability nor an error) eventually ends.
C5_ReadEnds ==
    (pc = "read_poll" /\ sock = "open" /\ peer = "halfopen" /\ inbuf = <<>>)
        ~> (pc = "idle")

\* C6: when the handshake receive returns fewer than 2 bytes, connect fails
\* with a connection error, the socket is closed, connected stays false and
\* the protocol version is not set.
C6_ShortHandshake ==
    (last.hs.got /\ Len(last.hs.bytes) < 2) =>
        /\ last.outcome \in ConnectionErrors
        /\ sock = "closed"
        /\ ~connected
        /\ protocol = -1

\* A handshake that got one byte of the two.
C6_Witness ==
    /\ last.hs.got
    /\ Len(last.hs.bytes) = 1
    /\ last.outcome = PoolExc

\* C7: a handshake that negotiates a version above the client's highest
\* raises the protocol-version error only under strict rejection, and then
\* connected stays false; without strict rejection the connect ends with
\* connected true and the negotiated version stored.
C7_NewerProtocol ==
    /\ Negotiated(SUPPORTED_PROTOCOL + 1) =>
          IF ERROR_ON_NEWER_PROTOCOL
          THEN last.outcome = ProtoExc /\ ~connected
          ELSE /\ last.outcome = "ok"
               /\ connected
               /\ protocol = SUPPORTED_PROTOCOL + 1
    /\ last.outcome = ProtoExc =>
          ERROR_ON_NEWER_PROTOCOL /\ Negotiated(SUPPORTED_PROTOCOL + 1)

\* A newer protocol accepted because strict rejection is off.
C7_Witness ==
    /\ Negotiated(SUPPORTED_PROTOCOL + 1)
    /\ ~ERROR_ON_NEWER_PROTOCOL
    /\ last.op = "connect"
    /\ connected

\* C8: whenever the session is torn down, by close or by a fatal error in
\* write or read, session id and protocol version are -1.
C8_TeardownResets ==
    (last.op = "close" \/ last.path \in FatalPaths) =>
        session_id = -1 /\ protocol = -1

\* C9: after a Connect whose response carries session id S and a non-empty
\* token T, the connection holds S and T, and every message get_message
\* builds afterwards, until close, has S as its session id and T as the token
\* of its request header.
C9_SessionCarried ==
    (est.on /\ est.token # <<>>) =>
        /\ session_id = est.sid
        /\ auth_token = est.token
        /\ lastMsg.made =>
              /\ lastMsg.session_id = est.sid
              /\ HeaderToken(lastMsg) = est.token

\* A message of another operation built after a Connect that established a
\* session with a token, while the client's own token setting is off.
C9_Witness ==
    /\ est.on
    /\ est.token # <<>>
    /\ clientToken = "False"
    /\ lastMsg.made
    /\ lastMsg.command = "CommandMessage"

\* C10: OrientDB.connect returns the session id the server assigned in the
\* Connect response.
C10_ConnectReturnsSession ==
    (last.op = "client_connect" /\ last.outcome = "ok") =>
        last.ret = Some(est.sid)

\* C11: when fetch_response of a synchronous Execute Command returns, every
\* byte of the response has been consumed, the terminating byte after the
\* result content included, whatever the result-type tag ('n', 'r', 'w',
\* 'a', 'l').
C11_SyncResponseDrained ==
    (last.op = "command" /\ last.outcome = "ok" /\ last.srv.on)
        => last.used = last.srv.len

\* C12: with the connection's in_transaction flag set, fetch_response of
\* Record Create, Record Update and Record Delete returns the message itself,
\* reads nothing from the transport, and changes neither the record nor the
\* connection.
C12_TransactionSuppressed ==
    [][(pc = "fetch" /\ pc' # "fetch" /\ in_transaction /\ frame.op \in RecordOps)
          => /\ last'.op = frame.op
             /\ last'.outcome = "ok"
             /\ last'.result.kind = "self"
             /\ last'.used = 0
             /\ last'.recvs = 0
             /\ inbuf' = inbuf
             /\ last'.record = NoRecord
             /\ ConnState' = ConnState]_vars

\* A Record Update's fetch_response has returned the message within a
\* transaction.
C12_Witness ==
    /\ in_transaction
    /\ last.op = "record_update"
    /\ last.result.kind = "self"

\* The ways the claim names in which the count of collection changes cannot
\* be decoded: the stream ends, the bytes do not decode to the field's type.
CountUndecodable == {"zero_byte", "type_mismatch"}

\* C13: for Record Create and Record Update alike, when the count of
\* collection changes cannot be decoded after the primary fields,
\* fetch_response raises nothing, counts zero changes, assigns the version
\* the server returned to the record and returns its normal result.
C13_CountTolerated ==
    (/\ last.op \in {"record_create", "record_update"}
     /\ last.stage = "count"
     /\ (last.path \in CountUndecodable \/ last.swallowed \in CountUndecodable))
        => /\ last.outcome = "ok"
           /\ last.result.kind = (IF last.op = "record_create" THEN "record"
                                  ELSE "update")
           /\ last.result.chng = 0
           /\ last.result.changes = 0
           /\ last.record.version = Some(IntVal(last.srv.version))

\* A Record Update whose response ended after the version has returned.
C13_Witness ==
    /\ last.op = "record_update"
    /\ last.stage = "count"
    /\ last.swallowed = "zero_byte"
    /\ last.srv.count = -1
    /\ last.outcome = "ok"
    /\ last.record.version \in {Some(IntVal(v)) : v \in Versions}

\* The decoding failures the claim names, by the path of read that meets
\* them: a connection error (end of stream, socket in error), a type mismatch.
TupleFailures == {"zero_byte", "poll_in_error", "type_mismatch"}

\* C14: for Record Create and Record Update alike, a decoding failure met
\* while the 5-tuples of the collection-change trailer are read, after a
\* positive count, is swallowed: fetch_response raises nothing and returns
\* its normal result.
C14_TupleFailureSwallowed ==
    (/\ last.op \in {"record_create", "record_update"}
     /\ last.stage = "tuple"
     /\ (last.path \in TupleFailures \/ last.swallowed \in TupleFailures))
        => /\ last.outcome = "ok"
           /\ last.result.kind = (IF last.op = "record_create" THEN "record"
                                  ELSE "update")

\* C15: Execute Command in asynchronous mode without a callback from the
\* caller raises a usage error during prepare, before any byte is written
\* (nothing is appended, no answer is awaited), and leaves connected flag,
\* session id, token and in_transaction as they were.
C15_AsyncNeedsCallback ==
    (/\ last.op \in {"prepare", "command_async"}
     /\ last.msg = "CommandMessage"
     /\ last.pre.db_opened # "None"
     /\ last.params.ctype = QUERY_ASYNC
     /\ ~last.params.cb)
        => /\ last.outcome = BadCallExc
           /\ last.path = "no_callback"
           /\ last.req = <<>>
           /\ last.data = <<>>
           /\ pc = "idle"
           /\ ~awaiting
           /\ inbuf = <<>>
           /\ ConnState = last.pre

\* client.query_async without a callback has raised the usage error.
C15_Witness ==
    /\ last.op = "command_async"
    /\ ~last.params.cb
    /\ last.outcome = BadCallExc

\* The parameters the claim calls invalid.
InvalidParams(pr) ==
    \/ /\ pr.class \in {"RecordCreateMessage", "RecordUpdateMessage",
                        "DataClusterAddMessage"}
       /\ pr.arg \in {"invalid_string", "invalid_other"}
    \/ pr.class = "CommandMessage" /\ pr.ctype \notin QUERY_TYPES
    \/ pr.class = "DataClusterCountMessage" /\ pr.arg = "other"

\* C16: prepare given an invalid record type (Record Create, Record Update),
\* an invalid cluster type (Cluster Add), an invalid command type (Execute
\* Command) or cluster ids that are neither list nor tuple (Cluster Count)
\* raises a usage error before any byte is written, and leaves the
\* connection untouched.
C16_InvalidParamsRejected ==
    (/\ last.op = "prepare"
     /\ last.pre.db_opened # "None"
     /\ InvalidParams(last.params))
        => /\ last.outcome = BadCallExc
           /\ last.req = <<>>
           /\ ConnState = last.pre

\* C17: for every database-scoped operation, prepare called while connected
\* with no database open raises a database-state error from a guard that
\* runs before the body: no field is appended, nothing is written, the
\* connection is untouched.
C17_NoDatabaseGuard ==
    (/\ last.op = "prepare"
     /\ last.msg \in DbMessages
     /\ last.pre.connected
     /\ last.pre.db_opened = "None")
        => /\ last.outcome = DbExc
           /\ last.path = "need_db_opened"
           /\ last.req = <<>>
           /\ ConnState = last.pre

\* chr(c).lower()
Lower(c) == IF c \in 65..90 THEN c + 32 ELSE c

\* The query text holds the word "limit", in any case, between two spaces.
HasLimitClause(q) ==
    \E i \in 1..(Len(q) - 6) :
        /\ q[i] = 32
        /\ q[i + 6] = 32
        /\ \A j \in 1..5 : Lower(q[i + j]) = <<108, 105, 109, 105, 116>>[j]

\* C18: for the sync and async query types the payload's limit field is -1
\* exactly when the query text holds a limit clause, whatever its case, and
\* otherwise the caller's limit (20 when none is given).
C18_LimitField ==
    (/\ last.op = "prepare"
     /\ last.msg = "CommandMessage"
     /\ last.outcome = "ok"
     /\ last.params.ctype \in {QUERY_SYNC, QUERY_ASYNC})
        => last.limit = Some(IF HasLimitClause(last.params.query) THEN -1
                             ELSE IF last.params.limit = None THEN 20
                             ELSE last.params.limit[1])

\* A query with a limit clause in mixed case has been prepared.
C18_Witness ==
    /\ last.op = "prepare"
    /\ last.msg = "CommandMessage"
    /\ last.outcome = "ok"
    /\ last.params.ctype = QUERY_SYNC
    /\ last.params.query = <<120, 32, 76, 105, 77, 105, 84, 32, 49>>
    /\ last.params.limit = Some(5)
    /\ last.limit = Some(-1)

\* What the claim expects of a synchronous command answered with the given
\* tag and, for 'l', n records.
ExpectedSyncResult(tag, n) ==
    IF tag = 110 THEN NoResult
    ELSE IF tag = 114 THEN ListResult(<<SentRecord(1)>>)
    ELSE IF tag = 119
    THEN ListResult(<<[kind |-> "field", version |-> 0, content |-> <<65>>]>>)
    ELSE IF tag = 97
    THEN ListResult(<<[kind |-> "blob", version |-> 0, content |-> <<66>>]>>)
    ELSE ListResult([i \in 1..n |-> SentRecord(i)])

\* C19: the result of a synchronous Execute Command follows the result-type
\* tag: 'n' a null result, 'r' a list of the one decoded record, 'w' a list
\* of that record's 'result' field, 'a' a list of the serialized blob, 'l'
\* with length N a list of exactly N decoded records in stream order.
C19_SyncResultByTag ==
    (last.op = "command" /\ last.outcome = "ok" /\ last.srv.on)
        => last.result = ExpectedSyncResult(last.srv.tag, last.srv.n)

\* An 'l' answer of two records has been returned as a list of two.
C19_Witness ==
    /\ last.op = "command"
    /\ last.outcome = "ok"
    /\ last.srv.tag = 108
    /\ last.srv.n = 2
    /\ Len(last.result.items) = 2
    /\ last.result.items[1] # last.result.items[2]

\* C20: in asynchronous Execute Command, on the discriminator stream 1,1,2,0
\* exactly the two records announced by 1 are in the result fetch_response
\* returns, the record announced by 2 goes to the prefetch callback only, and
\* the loop ends on reading 0 without consuming anything more.
C20_AsyncStream ==
    (/\ last.op = "command_async"
     /\ last.outcome = "ok"
     /\ last.srv.on
     /\ last.srv.tags = <<1, 1, 2>>)
        => /\ last.result.items = <<SentRecord(1), SentRecord(2)>>
           /\ last.cb = <<SentRecord(3)>>
           /\ last.tags = <<1, 1, 2, 0>>
           /\ last.used = last.srv.len

C22_UpdateKeepsIdentity ==
    (last.op = "record_update" /\ last.outcome = "ok"
        /\ last.result.kind = "update")
        => /\ last.record.version = Some(IntVal(last.srv.version))
           /\ last.record.rid = last.passed.rid

\* The keys that carry identity, version and class.
ReservedKeys == {KeyRid, KeyVersion, KeyOClass}

\* C23: for every content map given to the OrientRecord constructor, and
\* after any later update(), the record's field map (oRecordData) contains
\* none of the reserved keys __rid, __version, __o_class.
C23_NoReservedKeys ==
    (last.op \in {"OrientRecord", "update"})
        => Keys(last.record.storage) \cap ReservedKeys = {}

\* The upper- and lower-case variants of a name that are asked for.
Variants(name) == {k \in LookupNames : lower(k) = lower(name)}

\* C24: after an Open/Reload delivers a cluster list, get_class_position(k)
\* returns the id of every cluster of the list for every upper- or lower-case
\* variant k of its name.
C24_LookupFoldsCase ==
    (last.op = "get_class_position" /\ cluster_map # None)
        => \A i \in 1..Len(clusters) :
             last.arg \in Variants(clusters[i].name)
                => /\ last.outcome = "ok"
                   /\ last.ret = Some(clusters[i].id)

\* The cache is a dict of the names and ids of the list.
CacheOf(list) ==
    {<<list[i].name, list[i].id>> : i \in 1..Len(list)}

\* C25: after every db_open or db_reload the name-to-id and id-to-name
\* caches hold an entry for every cluster of the newly returned list and no
\* other entry, and for a list of distinct names and ids they are inverses of
\* each other.
C25_CachesRebuilt ==
    (cluster_map # None)
        => /\ cluster_reverse_map # None
           /\ {<<e.k, e.v>> : e \in {cluster_map[1][i] :
                                       i \in 1..Len(cluster_map[1])}}
                = CacheOf(clusters)
           /\ {<<e.v, e.k>> : e \in {cluster_reverse_map[1][i] :
                                       i \in 1..Len(cluster_reverse_map[1])}}
                = CacheOf(clusters)
           /\ Len(cluster_map[1]) = Len(clusters)
           /\ Len(cluster_reverse_map[1]) = Len(clusters)

\* A reload has replaced [default, v] by [default, e]: 'v' is gone from the
\* name-to-id cache and 1 from the id-to-name cache.
C25_Witness ==
    /\ last.op = "db_reload"
    /\ clusters = <<Cluster(<<100, 101, 102, 97, 117, 108, 116>>, 0),
                    Cluster(<<101>>, 2)>>
    /\ Keys(cluster_map[1]) = {<<100, 101, 102, 97, 117, 108, 116>>, <<101>>}
    /\ Keys(cluster_reverse_map[1]) = {0, 2}

C27_NoReconnection ==
    [][sock = "closed"
        => /\ sock' = "closed"
           /\ connected' => connected
           /\ est'.on => est.on
           /\ session_id' \in {session_id, -1}]_vars

\* After a teardown a message was asked for, get_connection tried to
\* connect, and the attempt failed on the closed descriptor.
C27_Witness ==
    /\ sock = "closed"
    /\ ~connected
    /\ last.op \in {"get_message", "client_connect", "get_connection"}
    /\ last.path = "settimeout_error"
    /\ last.outcome = ConnExc

\* The defaults the messages declare for their optional parameters: Execute
\* Command limit 20 and fetch plan '*:0'; Record Create type document and
\* synchronous mode; Record Update version policy -1, synchronous mode and
\* update-content true; Record Delete version -1 and synchronous mode;
\* Cluster Count no cluster ids and tombstones flag 0.
DeclaredDefaults(class) ==
    IF class = "CommandMessage"
    THEN {<<"_limit", IntVal(20)>>, <<"_fetch_plan", StrVal(<<42, 58, 48>>)>>}
    ELSE IF class = "RecordCreateMessage"
    THEN {<<"_record_type", StrVal(<<100>>)>>, <<"_mode_async", IntVal(0)>>}
    ELSE IF class = "RecordUpdateMessage"
    THEN {<<"_record_version_policy", IntVal(-1)>>, <<"_mode_async", IntVal(0)>>,
          <<"_update_content", TokVal("True")>>}
    ELSE IF class = "RecordDeleteMessage"
    THEN {<<"_record_version", IntVal(-1)>>, <<"_mode_async", IntVal(0)>>}
    ELSE IF class = "DataClusterCountMessage"
    THEN {<<"_cluster_ids", ListVal(<<>>)>>, <<"_count_tombstones", IntVal(0)>>}
    ELSE {}

\* The position of an attribute among the positional parameters, 0-based as
\* in params[i]; an attribute no position reaches is beyond every call.
PositionOf(class, attr) ==
    (CHOOSE i \in 1..Len(Slots(class)) : Slots(class)[i].attr = attr) - 1

\* C28: a prepare called on an open database with its trailing optional
\* positional parameters omitted completes, and every omitted parameter has
\* its declared default, in the message and in the request field taken from
\* it.
C28_OmittedTakeDefaults ==
    (last.op = "prepare_first" /\ last.path # "need_db_opened")
        => /\ last.outcome = "ok"
           /\ \A d \in DeclaredDefaults(last.msg) :
                PositionOf(last.msg, d[1]) >= last.n
                    => /\ Attr(last.params, d[1]) = d[2]
                       /\ \A i \in 1..Len(last.req) :
                            last.req[i].attr = d[1] => last.req[i].v = d[2]

\* Record Update called with cluster id, position and content only: the
\* request carries version policy -1, synchronous mode and update-content
\* true.
C28_Witness ==
    /\ last.op = "prepare_first"
    /\ last.msg = "RecordUpdateMessage"
    /\ last.n = 3
    /\ last.outcome = "ok"
    /\ last.req[4].v = TokVal("True")
    /\ last.req[6].v = IntVal(-1)
    /\ last.req[8].v = IntVal(0)

\* The operation code of each message type.
OperationOf(class) ==
    IF class = "ConnectMessage" THEN "CONNECT_OP"
    ELSE IF class = "ShutdownMessage" THEN "SHUTDOWN_OP"
    ELSE IF class = "CommandMessage" THEN "COMMAND_OP"
    ELSE IF class = "RecordCreateMessage" THEN "RECORD_CREATE_OP"
    ELSE IF class = "RecordLoadMessage" THEN "RECORD_LOAD_OP"
    ELSE IF class = "RecordUpdateMessage" THEN "RECORD_UPDATE_OP"
    ELSE IF class = "RecordDeleteMessage" THEN "RECORD_DELETE_OP"
    ELSE IF class = "DataClusterAddMessage" THEN "DATA_CLUSTER_ADD_OP"
    ELSE IF class = "DataClusterCountMessage" THEN "DATA_CLUSTER_COUNT_OP"
    ELSE IF class = "DataClusterDataRangeMessage"
    THEN "DATA_CLUSTER_DATA_RANGE_OP"
    ELSE "DATA_CLUSTER_DROP_OP"

\* C29: for every concrete message type the declared field sequence of the
\* request holds the operation's 1-byte operation code, and the code stands
\* before every field prepare appends.
C29_OperationCodeFirst ==
    (last.op = "prepare_first" /\ last.path = "prepared")
        => /\ last.req # <<>>
           /\ last.req[1].type = "byte"
           /\ last.req[1].attr = "op"
           /\ last.req[1].v = TokVal(OperationOf(last.msg))
           /\ \A i \in 2..Len(last.req) : last.req[i].attr # "op"

\* A Record Load that has returned, with the answer the server gave.
Loaded == last.op = "record_load" /\ last.outcome = "ok" /\ last.result.kind = "record"

\* The record Record Load is to return for an answer, with the class and
\* the fields decode makes of the bytes content.
LoadedFrom(content) ==
    [rid |-> Some(StrVal(last.record_id)),
     version |-> Some(IntVal(last.srv.version)),
     o_class |-> Attribute(decode(content).class_name),
     storage |-> decode(content).data]

C31_DataRangeSendsClusterId ==
    (/\ last.op = "data_cluster_data_range"
     /\ last.outcome = "ok"
     /\ last.result.kind = "fields")
    => /\ last.body = EncodeShort(last.args[1])
       /\ last.result.fields = last.srv.range

\* A record id "#c:p" or "c:p" with c and p decimal numbers.
WellFormedRid(rid) ==
    LET body == IF rid # <<>> /\ Head(rid) = 35 THEN Tail(rid) ELSE rid
        colon == Find(body, 58)
        Number(s) == s # <<>> /\ \A i \in 1..Len(s) : s[i] \in 48..57
    IN  /\ Count(body, 58) = 1
        /\ Number(SubSeq(body, 1, colon - 1))
        /\ Number(SubSeq(body, colon + 1, Len(body)))

\* C32: Record Load prepared with a malformed record id (empty, or with a
\* cluster or position that is no number, such as "abc" or "#5") fails with
\* the usage error PyOrientBadMethodCallException before any request field
\* is appended.
C32_MalformedRidIsUsageError ==
    (/\ last.op = "prepare_load"
     /\ last.path # "need_db_opened"
     /\ ~WellFormedRid(last.arg))
    => /\ last.outcome = BadCallExc
       /\ last.n = 0

\* The values of the request fields taken from an attribute.
FieldsOf(req, attr) == {req[i].v : i \in {j \in 1..Len(req) : req[j].attr = attr}}

\* C33: Record Update transmits in its version-policy field the caller's
\* update semantics: -1 when the caller specifies nothing, and, when the
\* caller supplies a record version v >= 0 (and no policy of its own), that
\* exact version v.
C33_VersionReachesServer ==
    (/\ last.op = "prepare_first"
     /\ last.msg = "RecordUpdateMessage"
     /\ last.path = "prepared")
    => LET version == Attr(last.params, "_record_version")
           sent == FieldsOf(last.req, "_record_version_policy")
       IN  /\ last.n <= PositionOf(last.msg, "_record_version")
                => sent = {IntVal(-1)}
           /\ (/\ last.n > PositionOf(last.msg, "_record_version")
               /\ last.n <= PositionOf(last.msg, "_record_version_policy")
               /\ version.s[1] >= 0)
                => sent = {version}

\* The cluster ids and the tombstone flag a Cluster Count was prepared with.
SuppliedIds == IF last.params = <<>> THEN <<>> ELSE last.params[1].s
SuppliedFlag == IF Len(last.params) >= 2 THEN last.params[2] ELSE IntVal(0)

\* C34: the Cluster Count request body is a count field equal to the number
\* of cluster ids supplied, then exactly that many cluster-id fields in the
\* caller's order, then the tombstone-counting flag.
C34_CountMatchesIds ==
    (last.op = "prepare_count" /\ last.outcome = "ok" /\ last.path = "prepared")
    => LET body == Tail(last.req)
       IN  /\ Len(body) = Len(SuppliedIds) + 2
           /\ body[1].type = "short"
           /\ body[1].v = IntVal(Len(SuppliedIds))
           /\ \A i \in 1..Len(SuppliedIds) :
                /\ body[i + 1].type = "short"
                /\ body[i + 1].v = IntVal(SuppliedIds[i])
           /\ body[Len(body)].type = "boolean"
           /\ body[Len(body)].v = SuppliedFlag

\* Cluster Count was prepared with the ids 2, 1 and the tombstone flag: the
\* body is the count 2, the ids 2 and 1, the flag.
C34_Witness ==
    /\ last.op = "prepare_count"
    /\ last.outcome = "ok"
    /\ last.params = <<ListVal(<<2, 1>>), IntVal(1)>>
    /\ Len(last.req) = 5
    /\ last.req[2].v = IntVal(2)
    /\ last.req[3].v = IntVal(2)
    /\ last.req[4].v = IntVal(1)
    /\ last.req[5].v = IntVal(1)

\* C35: asking get_message for an operation name that is not in the message
\* registry raises PyOrientBadMethodCallException and closes the connection:
\* connected is false, session id and protocol are -1, the socket is closed.
C35_UnknownCommandCloses ==
    (last.op = "get_message" /\ last.path = "key_error")
    => /\ last.outcome = BadCallExc
       /\ ~connected
       /\ sock = "closed"
       /\ session_id = -1
       /\ protocol = -1
       /\ ~est.on

\* An unknown command was asked for on a connection that held a session.
C35_Witness ==
    /\ last.op = "get_message"
    /\ last.path = "key_error"
    /\ last.outcome = BadCallExc
    /\ last.pre.connected
    /\ last.pre.session_id # -1
    /\ last.pre.protocol # -1
    /\ ~connected
    /\ session_id = -1

C37_IssuedTokenWins ==
    (last.op = "get_message" /\ last.path = "built")
    => IF auth_token # <<>>
       THEN /\ lastMsg.request_token
            /\ lastMsg.auth_token = auth_token
            /\ HeaderToken(lastMsg) = auth_token
       ELSE /\ lastMsg.request_token = (clientToken = "True")
            /\ HeaderToken(lastMsg) = <<>>

\* The client was told set_session_token(False), the connection holds an
\* issued token, and the message built carries that token.
C37_Witness ==
    /\ last.op = "get_message"
    /\ last.path = "built"
    /\ clientToken = "False"
    /\ auth_token # <<>>
    /\ lastMsg.made
    /\ HeaderToken(lastMsg) = auth_token

\* The result-type tags _read_sync knows.
KnownTags == {TagN, TagR, TagW, TagA, TagL}

\* C38: when the response to a synchronous command starts with a
\* result-type tag other than 'n', 'r', 'w', 'a', 'l', the call ends by
\* returning the empty result list once the bytes available are drained.
C38_UnknownTagReturnsEmpty ==
    (/\ last.op = "command"
     /\ last.srv.on
     /\ last.srv.kind = "command"
     /\ last.srv.tag \notin KnownTags
     /\ last.stage = "debug")
    => /\ last.outcome = "ok"
       /\ last.result = ListResult(<<>>)

\* The value parsed, its text, and for a text "#c:p" or "c:p" its c and p.
RidGiven == last.params[1]
RidText == AsString(RidGiven)
RidFirst == SubSeq(RidText, 1, Find(RidText, 58) - 1)
RidC == IF RidFirst # <<>> /\ Head(RidFirst) = 35 THEN Tail(RidFirst) ELSE RidFirst
RidP == SubSeq(RidText, Find(RidText, 58) + 1, Len(RidText))

\* The record id is a str, bytes or a link of the form "#c:p" or "c:p".
RidHasForm ==
    /\ RidGiven.t # "int"
    /\ Count(RidText, 58) = 1
    /\ RidFirst # <<>>

\* For "#c:p" and "c:p" the parsers return c and p, and "#" + c + ":" + p
\* is the canonical rid.
RidTakenApart ==
    RidHasForm
    => /\ last.req[1] = Parsed("ok", RidC)
       /\ last.req[2] = Parsed("ok", RidP)
       /\ <<35>> \o last.req[1].v.s \o <<58>> \o last.req[2].v.s
            = (IF Head(RidText) = 35 THEN <<>> ELSE <<35>>) \o RidText

====
